---- MODULE Spec2Model ----
(***************************************************************************)
(* Model of the adaptive polling and play-deduplication engine of          *)
(* selfhoardify-api: the self-rescheduling live poller                     *)
(* (poll_current_playback), the hourly backstop (poll_recently_played),    *)
(* the Redis cache keys they share, and the MongoDB collections they       *)
(* write.                                                                  *)
(*                                                                         *)
(* Every coroutine is cut at its await points: one action is the code      *)
(* that runs between two awaits, together with the effect of the awaited   *)
(* call.  Redis and spotipy calls made without await are part of the       *)
(* action they occur in.                                                   *)
(***************************************************************************)
EXTENDS Integers, Sequences, FiniteSets, Bags, TLC

VARIABLES
    sched,      \* state of the AsyncIOScheduler: "stopped", "running", "shutdown"
    jobs,       \* the scheduler's job store, a bag of job records
    redis,      \* the Redis keys: token, now_playing, now_playing_svg, last_track_id
    tracks,     \* the tracks collection: track_id -> [exists, listen_count]
    plays,      \* the plays collection, a bag of play documents
    artists,    \* the artists collection, a bag of artist ids
    albums,     \* the albums collection, a bag of album ids
    requests,   \* AdaptiveRateLimiter.requests, the deque of timestamps
    proc,       \* the poll_current_playback coroutines: position and locals
    bs,         \* the poll_recently_played coroutine: position and locals
    work,       \* poll cycles started plus recently-played events fetched
    ret,        \* how the most recently ended poll_current_playback cycle ended
    store_ok,   \* the scheduler's add_job succeeds (FALSE: it raises)
    clock,      \* time.time(), in seconds
    call,       \* the most recent call on the rate limiter and its result,
                \* with every timestamp recorded so far
    sy,         \* the sync_all_missing_metadata coroutine: position and locals
    rw,         \* the callers of the rate limiter: the lock, each caller's
                \* position and locals, every timestamp appended so far
    crash,      \* the durable state and the play at the last interruption of
                \* a poll cycle between its two writes
    fav,        \* the favorites collection and the sync_favorites request:
                \* position and locals
    mig         \* the migration script 003: position and locals

vars == <<sched, jobs, redis, tracks, plays, artists, albums, requests,
          proc, bs, work, ret, store_ok, clock, call, sy, rw, crash, fav, mig>>

\* the state that the poll cycles, the backstop and the lifecycle steps leave
\* alone
elsewhere == <<store_ok, clock, call, sy, rw, crash, fav, mig>>

-----------------------------------------------------------------------------
(* Bounds of the model.                                                    *)

\* poll_current_playback cycles started plus events returned by
\* get_recently_played, in one behaviour
MaxWork == 2

(* Input domains.                                                          *)

None == "none"
\* an absent value (Python's None, a missing Redis key) and a present one
Nothing == <<>>
Some(x) == <<x>>
Range(seq) == {seq[i] : i \in DOMAIN seq}
Min(a, b) == IF a < b THEN a ELSE b
Tracks == {"t1", "t2"}
\* start times of a play in seconds, as the live poller computes them
\* (now - progress_ms) and as the recently-played history reports them: two
\* in one minute, one just after the minute's end
Stamps == {57, 59}
RecentStamps == {59, 62}
Durations == {180000}
Progresses == {1000, 170000}
\* time.time() values seen by the rate limiter
Times == {0}

\* the two tracks are of one artist and one album
artist_ids(t) == <<"a1">>
album_id(t) == "b1"

\* the two coroutines that can run poll_current_playback at the same time:
\* the scheduler's job instance and the manual endpoint's request
Procs == {"job", "manual"}

-----------------------------------------------------------------------------
(* app/services/rate_limiter.py                                            *)

window_seconds == 30

\* nothing is ever removed from the deque
no_cleanup(q, now) == q

\* a timestamp exactly window_seconds old is popped as well
RECURSIVE cleanup_at_cutoff(_, _)
cleanup_at_cutoff(q, now) ==
    IF q # <<>> /\ Head(q) <= now - window_seconds
    THEN cleanup_at_cutoff(Tail(q), now)
    ELSE q

\* AdaptiveRateLimiter._cleanup: pop from the left while the head is older
\* than the cutoff
RECURSIVE cleanup(_, _)
cleanup(q, now) ==
    IF q # <<>> /\ Head(q) < now - window_seconds
    THEN cleanup(Tail(q), now)
    ELSE q

\* AdaptiveRateLimiter.record_requests: append `count` copies of now, then
\* _cleanup
RECURSIVE append_now(_, _, _)
append_now(q, now, count) ==
    IF count = 0 THEN q ELSE append_now(Append(q, now), now, count - 1)

record_requests(q, now, count) == cleanup(append_now(q, now, count), now)

\* the values time.time() can return after the timestamps already recorded
ClockReads(q) == {t \in Times : q = <<>> \/ t >= q[Len(q)]}

-----------------------------------------------------------------------------
(* app/scheduler/jobs: the job store and the self-rescheduling chain       *)

POLL_ID == "poll_current_playback"
BACKSTOP_ID == "poll_recently_played"

PollJob(interval) == [id |-> POLL_ID, trigger |-> "date", interval |-> interval]
BackstopJob == [id |-> BACKSTOP_ID, trigger |-> "cron", interval |-> 3600]

\* the jobs of the store registered under an id
JobsWithId(js, id) == {j \in BagToSet(js) : j.id = id}

\* the store without any job registered under an id
WithoutId(js, id) ==
    LET keep == {j \in BagToSet(js) : j.id # id}
    IN  [j \in keep |-> js[j]]

\* add_job without replace_existing: a second job under the same id
add_job_no_replace(js, job) == js (+) SetToBag({job})

\* scheduler.add_job(..., id=..., replace_existing=True): a job registered
\* under the same id is replaced
add_job(js, job) == WithoutId(js, job.id) (+) SetToBag({job})

\* a job's trigger fired: a date trigger has no next run time and the job is
\* removed from the store; a cron job stays
job_fired(js, id) ==
    LET keep == {j \in BagToSet(js) : j.id # id \/ j.trigger = "cron"}
    IN  [j \in keep |-> js[j]]

\* the longer interval whatever the cycle did
long_interval(requests_made) == 2

\* the two intervals the other way round
inverted_interval(requests_made) == IF requests_made > 1 THEN 1 ELSE 2

\* _schedule_next_poll: next_interval = 2.0 if requests_made > 1 else 1.0
next_interval(requests_made) == IF requests_made > 1 THEN 2 ELSE 1

\* add_job is never called
schedule_nothing(js, scheduler, requests_made) == js

\* add_job is taken to succeed whatever the state of the scheduler's store
schedule_next_poll_unguarded(js, scheduler, requests_made) ==
    IF ~scheduler
    THEN js
    ELSE add_job(js, PollJob(next_interval(requests_made)))

\* _schedule_next_poll(requests_made), with _scheduler set by register_jobs
\* (None before): the job store afterwards; when add_job raises, the
\* exception is logged and nothing is registered
schedule_next_poll(js, scheduler, requests_made) ==
    IF ~scheduler
    THEN js
    ELSE IF ~store_ok
         THEN js
         ELSE add_job(js, PollJob(next_interval(requests_made)))

\* register_jobs: the first poll one second from now, the backstop on the hour
register_jobs(js) == add_job(add_job(js, PollJob(1)), BackstopJob)

\* _scheduler is set from register_jobs on, and never reset
scheduler_set == sched # "stopped"

-----------------------------------------------------------------------------
(* app/services/spotify.py: snapshots and the Redis cache                  *)

\* a timestamp kept to the second
same_time(played_at) == played_at

\* played_at.replace(second=0, microsecond=0), on a time in seconds
round_minute(played_at) == played_at - (played_at % 60)

\* the "play" part of get_current_playback's result
Play(track_id, played_at) ==
    [track_id |-> track_id, played_at |-> played_at,
     played_at_rounded |-> Some(round_minute(played_at))]

\* an event of get_recently_played: played_at only, no played_at_rounded
RecentPlay(track_id, played_at) ==
    [track_id |-> track_id, played_at |-> played_at,
     played_at_rounded |-> Nothing]

NoPlay == [track_id |-> None, played_at |-> 0, played_at_rounded |-> Nothing]

\* the "now_playing" part of get_current_playback's result
NowPlaying(track_id, progress_ms, duration_ms) ==
    [track_id |-> track_id, progress_ms |-> progress_ms,
     duration_ms |-> duration_ms]

\* the remaining time plus 30 seconds, without the floor of 60
remaining_seconds(now_playing) ==
    ((now_playing.duration_ms - now_playing.progress_ms) \div 1000) + 30

\* the remaining time plus 30 seconds, with a floor of 30
floor_30(now_playing) ==
    IF remaining_seconds(now_playing) > 30
    THEN remaining_seconds(now_playing) ELSE 30

\* ttl_seconds = max((remaining_ms // 1000) + 30, 60)
ttl_seconds(now_playing) ==
    LET remaining_ms == now_playing.duration_ms - now_playing.progress_ms
        t == (remaining_ms \div 1000) + 30
    IN  IF t > 60 THEN t ELSE 60

\* cache_now_playing(redis_client, data, ttl_seconds)
cache_now_playing(r, data, ttl) ==
    IF data = Nothing
    THEN [r EXCEPT !.now_playing = Nothing]
    ELSE [r EXCEPT !.now_playing = Some([data |-> data[1], ex |-> ttl])]

\* cache_now_playing_svg(redis_client, svg, ttl_seconds); the svg is rendered
\* from the snapshot's title and artist
cache_now_playing_svg(r, data, ttl) ==
    [r EXCEPT !.now_playing_svg = Some([data |-> data.track_id, ex |-> ttl])]

\* the cache keys deleted, LAST_TRACK_KEY kept
keep_marker(r) ==
    [r EXCEPT !.now_playing = Nothing, !.now_playing_svg = Nothing]

\* the nothing-playing branch: both cache keys and LAST_TRACK_KEY deleted
clear_now_playing(r) ==
    [cache_now_playing(r, Nothing, 0) EXCEPT !.now_playing_svg = Nothing,
                                             !.last_track_id = None]

\* every track is taken for a new listen
always_new(current_track_id, last_track_id) == TRUE

\* a track is never taken for a new listen
never_new(current_track_id, last_track_id) == FALSE

\* is_new_listen = current_track_id != last_track_id
is_new_listen(current_track_id, last_track_id) ==
    current_track_id # last_track_id

-----------------------------------------------------------------------------
(* app/services/plays.py: the durable store                                *)

\* the listened-at minute a play is stored under: the snapshot's
\* played_at_rounded, or played_at rounded when the play carries none
listened_at(play) ==
    IF play.played_at_rounded # Nothing
    THEN play.played_at_rounded[1]
    ELSE round_minute(play.played_at)

\* the unique index on (track_id, rounded time) of the plays collection
has_play(pl, track_id, minute) ==
    \E d \in BagToSet(pl) : d.track_id = track_id /\ d.listened_at = minute

\* insert_play's result: True if new, False if the unique index rejects it
insert_play_was_new(pl, play) == ~has_play(pl, play.track_id, listened_at(play))

\* insert_play: one document appended unless the unique index rejects it
insert_play(pl, play, source) ==
    IF insert_play_was_new(pl, play)
    THEN pl (+) SetToBag({[track_id |-> play.track_id,
                           listened_at |-> listened_at(play),
                           played_at |-> play.played_at,
                           source |-> source]})
    ELSE pl

\* upsert_track's result: True when the track document was created
upsert_track_is_new(tr, play) == ~tr[play.track_id].exists

\* upsert_track: metadata set, listen_count incremented when asked
upsert_track(tr, play, increment_count) ==
    [tr EXCEPT ![play.track_id] =
        [exists |-> TRUE,
         listen_count |-> @.listen_count + (IF increment_count THEN 1 ELSE 0)]]

\* every id is taken for missing
all_missing(col, ids) == ids

\* missing_ids = [aid for aid in artist_ids if aid not in existing_ids]
missing_ids(col, ids) == SelectSeq(ids, LAMBDA a : ~BagIn(a, col))

\* insert_many / insert_one on a collection with a unique index on the id:
\* documents are inserted in order up to the first duplicate, which raises
RECURSIVE insert_many(_, _)
insert_many(col, docs) ==
    IF docs = <<>>
    THEN [col |-> col, ok |-> TRUE]
    ELSE IF BagIn(Head(docs), col)
         THEN [col |-> col, ok |-> FALSE]
         ELSE insert_many(col (+) SetToBag({Head(docs)}), Tail(docs))

\* what sp.artists(missing_ids) returns: an entry can be null, and the
\* documents are built from the others
ArtistDocs(missing) ==
    {SelectSeq(missing, LAMBDA a : a \in keep) : keep \in SUBSET Range(missing)}

-----------------------------------------------------------------------------
(* State                                                                   *)

\* a poll_current_playback coroutine that is not running
IdleProc ==
    [pc |-> "idle", play |-> NoPlay, requests_made |-> 0,
     is_new_track |-> FALSE, docs |-> <<>>]

\* the poll_recently_played coroutine when it is not running
IdleBackstop ==
    [pc |-> "idle", left |-> 0, play |-> NoPlay, was_new |-> FALSE,
     inserted |-> 0, skipped |-> 0]

\* how the most recently ended poll cycle ended: the returned dict or the
\* exception, what the cycle observed (obs), and what the cycle that ended
\* before it observed (prev); here no poll cycle has ended yet
NoReturn ==
    [status |-> None, error |-> None, obs |-> None, prev |-> None,
     playing |-> FALSE, new_listen |-> FALSE, requests_made |-> 0]

\* no call has been made on the rate limiter yet
NoCall == [n |-> 0, op |-> None, usage |-> 0, result |-> 0, log |-> <<>>]

\* a caller of the rate limiter that is in no call
IdleCaller ==
    [pc |-> "idle", op |-> None, left |-> 0, now |-> 0, cutoff |-> 0,
     result |-> 0]

\* the callers of the shared rate limiter: the timer-driven poll, a manually
\* triggered poll, and a metadata batch loop
Callers == {"timer", "manual", "sync"}

\* the rate limiter's lock is free, no caller is in a call, nothing has been
\* appended
IdleWindow ==
    [lock |-> None, th |-> [c \in Callers |-> IdleCaller], log |-> <<>>,
     n |-> 0]

\* the sync_all_missing_metadata coroutine when it is not running: no run
\* has ended yet (last), nor one before it (before)
IdleSync ==
    [pc |-> "idle", all_ids |-> <<>>, missing |-> <<>>, docs |-> <<>>,
     artists_synced |-> 0, albums_synced |-> 0, refs |-> {},
     unanswered |-> FALSE, runs |-> 0, last |-> Nothing, before |-> Nothing]

\* migration 003 before it is run; `before` remembers the collection it
\* started on
IdleMig == [pc |-> "idle", ids_to_delete |-> {}, before |-> {}]

\* sync_favorites when no request runs; favorites is the collection
IdleFav ==
    [pc |-> "idle", favorites |-> {}, library |-> <<>>, offset |-> 0,
     inserted_count |-> 0, pages_fetched |-> 0, runs |-> 0, status |-> None]

\* the database outlives the process: at startup it is empty, or holds what
\* an earlier run of poll_recently_played stored for one event
NoTracks == [t \in Tracks |-> [exists |-> FALSE, listen_count |-> 0]]
StoredEvent == RecentPlay("t1", 59)

Init ==
    /\ sched = "stopped"
    /\ jobs = EmptyBag
    /\ redis = [token |-> FALSE, now_playing |-> Nothing,
                now_playing_svg |-> Nothing, last_track_id |-> None]
    /\ \E stored \in {<<>>, <<StoredEvent>>} :
         /\ plays = IF stored = <<>> THEN EmptyBag
                    ELSE insert_play(EmptyBag, stored[1], "backstop")
         /\ tracks = IF stored = <<>> THEN NoTracks
                     ELSE upsert_track(NoTracks, stored[1], TRUE)
    /\ artists = EmptyBag
    /\ albums = EmptyBag
    /\ requests = <<>>
    /\ proc = [p \in Procs |-> IdleProc]
    /\ bs = IdleBackstop
    /\ work = 0
    /\ ret = NoReturn
    /\ store_ok = TRUE
    /\ clock = 0
    /\ call = NoCall
    /\ sy = IdleSync
    /\ rw = IdleWindow
    /\ crash = Nothing
    /\ fav = IdleFav
    /\ mig = IdleMig

\* the other poll coroutines are all idle
Alone(p) == \A q \in Procs \ {p} : proc[q].pc = "idle"

-----------------------------------------------------------------------------
(* Application lifecycle, credentials, cache expiry                        *)

\* lifespan startup: start_scheduler = register_jobs(scheduler), then
\* scheduler.start()
start_scheduler ==
    /\ sched = "stopped"
    /\ sched' = "running"
    /\ jobs' = register_jobs(jobs)
    /\ UNCHANGED <<elsewhere, redis, tracks, plays, artists, albums, requests, proc, bs,
                   work, ret>>

\* lifespan shutdown: scheduler.shutdown(wait=False). The scheduler's
\* executor cancels the tasks of the jobs that are running: a cycle that the
\* scheduler started ends with CancelledError at the await it is suspended
\* in, a cycle that an endpoint started goes on. poll_recently_played is
\* started by the cron job or by its endpoint, so it is cancelled or goes on
stop_scheduler ==
    /\ sched = "running"
    /\ sched' = "shutdown"
    /\ IF proc["job"].pc # "idle"
       THEN /\ proc' = [proc EXCEPT !["job"] = IdleProc]
            /\ ret' = [NoReturn EXCEPT !.status = "raised",
                                       !.error = "cancelled",
                                       !.obs = "error", !.prev = ret.obs]
       ELSE UNCHANGED <<proc, ret>>
    /\ bs' \in IF bs.pc # "idle" THEN {bs, IdleBackstop} ELSE {bs}
    /\ UNCHANGED <<elsewhere, jobs, redis, tracks, plays, artists, albums, requests,
                   work>>

\* GET /spotify/callback: the token is saved to Redis
callback ==
    /\ sched = "running"
    /\ ~redis.token
    /\ redis' = [redis EXCEPT !.token = TRUE]
    /\ UNCHANGED <<elsewhere, sched, jobs, tracks, plays, artists, albums, requests, proc,
                   bs, work, ret>>

\* the TTL of the two now-playing keys (set together, with the same ex) ran out
ExpireCache ==
    /\ redis.now_playing # Nothing
    /\ redis' = [redis EXCEPT !.now_playing = Nothing,
                              !.now_playing_svg = Nothing]
    /\ UNCHANGED <<elsewhere, sched, jobs, tracks, plays, artists, albums, requests, proc,
                   bs, work, ret>>

-----------------------------------------------------------------------------
(* app/scheduler/jobs/spotify.py: poll_current_playback                    *)

\* the coroutine returns `result`: a dict with status, playing, new_listen
returns(p, result) ==
    /\ proc' = [proc EXCEPT ![p] = IdleProc]
    /\ ret' = [result EXCEPT !.prev = ret.obs]

\* an exception leaves the coroutine: nothing after the raising call runs
raises(p, error) ==
    /\ proc' = [proc EXCEPT ![p] = IdleProc]
    /\ ret' = [NoReturn EXCEPT !.status = "raised", !.error = error,
                               !.obs = "error", !.prev = ret.obs]

\* lines 135-144, the end of a new-listen cycle: LAST_TRACK_KEY is set, the
\* next poll is scheduled, the result is returned
finish(p, requests_made) ==
    /\ redis' = [redis EXCEPT !.last_track_id = proc[p].play.track_id]
    /\ jobs' = schedule_next_poll(jobs, scheduler_set, requests_made)
    /\ returns(p, [NoReturn EXCEPT
                     !.status = "ok", !.obs = proc[p].play.track_id,
                     !.playing = TRUE, !.new_listen = TRUE,
                     !.requests_made = requests_made])

\* lines 66-72: no cached token: the next poll is scheduled and the cycle is
\* skipped; `js` is the job store the coroutine starts with
poll_unauthenticated(p, js) ==
    /\ proc[p].pc = "idle"
    /\ work < MaxWork
    /\ ~redis.token
    /\ work' = work + 1
    /\ jobs' = schedule_next_poll(js, scheduler_set, 1)
    /\ returns(p, [NoReturn EXCEPT !.status = "skipped",
                                   !.obs = "unauthenticated"])
    /\ UNCHANGED <<elsewhere, sched, redis, tracks, plays, artists, albums, requests,
                   bs>>

\* lines 66-77: a token is cached: get_current_playback is started in a
\* thread and awaited
poll_fetch(p, js) ==
    /\ proc[p].pc = "idle"
    /\ work < MaxWork
    /\ redis.token
    /\ work' = work + 1
    /\ jobs' = js
    /\ proc' = [proc EXCEPT ![p] = [IdleProc EXCEPT !.pc = "fetch"]]
    /\ UNCHANGED <<elsewhere, sched, redis, tracks, plays, artists, albums, requests, bs,
                   ret>>

\* line 77: get_current_playback raises (network error, timeout, 5xx); the
\* await is not inside a try
poll_fetch_raises(p) ==
    /\ proc[p].pc = "fetch"
    /\ raises(p, "fetch")
    /\ UNCHANGED <<elsewhere, sched, jobs, redis, tracks, plays, artists, albums,
                   requests, bs, work>>

\* lines 80-87: no snapshot
poll_nothing_playing(p) ==
    /\ proc[p].pc = "fetch"
    /\ redis' = clear_now_playing(redis)
    /\ jobs' = schedule_next_poll(jobs, scheduler_set, 1)
    /\ returns(p, [NoReturn EXCEPT !.status = "ok", !.obs = "nothing",
                                   !.requests_made = 1])
    /\ UNCHANGED <<elsewhere, sched, tracks, plays, artists, albums, requests, bs, work>>

\* Redis after lines 93-106: both cache keys written with the same TTL
cache_snapshot(r, now_playing) ==
    cache_now_playing_svg(
        cache_now_playing(r, Some(now_playing), ttl_seconds(now_playing)),
        now_playing, ttl_seconds(now_playing))

\* lines 89-115 and 140-144: a snapshot whose track is the last one seen
poll_same_track(p) ==
    /\ proc[p].pc = "fetch"
    /\ \E t \in Tracks, pr \in Progresses, du \in Durations :
         /\ ~is_new_listen(t, redis.last_track_id)
         /\ redis' = cache_snapshot(redis, NowPlaying(t, pr, du))
         /\ jobs' = schedule_next_poll(jobs, scheduler_set, 1)
         /\ returns(p, [NoReturn EXCEPT
                          !.status = "ok", !.obs = t, !.playing = TRUE,
                          !.requests_made = 1])
    /\ UNCHANGED <<elsewhere, sched, tracks, plays, artists, albums, requests, bs, work>>

\* the next poll registered as soon as the snapshot is cached, before the
\* durable writes
poll_new_listen_registers_first(p) ==
    /\ proc[p].pc = "fetch"
    /\ \E t \in Tracks, s \in Stamps, pr \in Progresses, du \in Durations :
         /\ is_new_listen(t, redis.last_track_id)
         /\ redis' = cache_snapshot(redis, NowPlaying(t, pr, du))
         /\ proc' = [proc EXCEPT ![p] =
                       [IdleProc EXCEPT !.pc = "upsert_track",
                                        !.play = Play(t, s),
                                        !.requests_made = 1]]
    /\ jobs' = schedule_next_poll(jobs, scheduler_set, 1)
    /\ UNCHANGED <<elsewhere, sched, tracks, plays, artists, albums, requests, bs,
                   work, ret>>

\* lines 89-118: a snapshot whose track differs from the last one seen:
\* upsert_track is awaited
poll_new_listen(p) ==
    /\ proc[p].pc = "fetch"
    /\ \E t \in Tracks, s \in Stamps, pr \in Progresses, du \in Durations :
         /\ is_new_listen(t, redis.last_track_id)
         /\ redis' = cache_snapshot(redis, NowPlaying(t, pr, du))
         /\ proc' = [proc EXCEPT ![p] =
                       [IdleProc EXCEPT !.pc = "upsert_track",
                                        !.play = Play(t, s),
                                        !.requests_made = 1]]
    /\ UNCHANGED <<elsewhere, sched, jobs, tracks, plays, artists, albums, requests, bs,
                   work, ret>>

\* line 118: is_new_track = await upsert_track(db, play, increment_count=True)
poll_upsert_track(p) ==
    /\ proc[p].pc = "upsert_track"
    /\ tracks' = upsert_track(tracks, proc[p].play, TRUE)
    /\ proc' = [proc EXCEPT ![p].pc = "insert_play",
                            ![p].is_new_track =
                                upsert_track_is_new(tracks, proc[p].play)]
    /\ UNCHANGED <<elsewhere, sched, jobs, redis, plays, artists, albums, requests, bs,
                   work, ret>>

\* lines 121-144, the track was known: await insert_play(db, play), its
\* result dropped; no metadata sync
poll_insert_play(p) ==
    /\ proc[p].pc = "insert_play"
    /\ ~proc[p].is_new_track
    /\ plays' = insert_play(plays, proc[p].play, "live")
    /\ finish(p, proc[p].requests_made)
    /\ UNCHANGED <<elsewhere, sched, tracks, artists, albums, requests, bs, work>>

\* lines 121-126, the track is new: sync_missing_artists is awaited next
poll_insert_play_new_track(p) ==
    /\ proc[p].pc = "insert_play"
    /\ proc[p].is_new_track
    /\ plays' = insert_play(plays, proc[p].play, "live")
    /\ proc' = [proc EXCEPT ![p].pc = "sync_artists"]
    /\ UNCHANGED <<elsewhere, sched, jobs, redis, tracks, artists, albums, requests, bs,
                   work, ret>>

\* sync_missing_artists up to its insert_many: the find, and when ids are
\* missing sp.artists and record_requests(1); no missing id or no document
\* returns 0 and sync_missing_album is awaited next
poll_sync_artists(p) ==
    /\ proc[p].pc = "sync_artists"
    /\ LET missing == missing_ids(artists, artist_ids(proc[p].play.track_id))
       IN  IF missing = <<>>
           THEN /\ proc' = [proc EXCEPT ![p].pc = "sync_album"]
                /\ requests' = requests
           ELSE \E docs \in ArtistDocs(missing), now \in ClockReads(requests) :
                  /\ requests' = record_requests(requests, now, 1)
                  /\ proc' = [proc EXCEPT
                                ![p].pc = IF docs = <<>> THEN "sync_album"
                                          ELSE "insert_artists",
                                ![p].docs = docs]
    /\ UNCHANGED <<elsewhere, sched, jobs, redis, tracks, plays, artists, albums, bs,
                   work, ret>>

\* sync_missing_artists' insert_many succeeds: len(docs) > 0 is returned and
\* requests_made is incremented
poll_insert_artists(p) ==
    /\ proc[p].pc = "insert_artists"
    /\ insert_many(artists, proc[p].docs).ok
    /\ artists' = insert_many(artists, proc[p].docs).col
    /\ proc' = [proc EXCEPT ![p].pc = "sync_album", ![p].docs = <<>>,
                            ![p].requests_made = @ + 1]
    /\ UNCHANGED <<elsewhere, sched, jobs, redis, tracks, plays, albums, requests, bs,
                   work, ret>>

\* sync_missing_artists' insert_many hits the unique index (another sync
\* inserted the id since the find): the error leaves poll_current_playback
poll_insert_artists_raises(p) ==
    /\ proc[p].pc = "insert_artists"
    /\ ~insert_many(artists, proc[p].docs).ok
    /\ artists' = insert_many(artists, proc[p].docs).col
    /\ raises(p, "db")
    /\ UNCHANGED <<elsewhere, sched, jobs, redis, tracks, plays, albums, requests, bs,
                   work>>

\* sync_missing_album returns 0 (the album exists, or sp.album returned
\* nothing): the cycle ends
poll_sync_album_none(p) ==
    /\ proc[p].pc = "sync_album"
    /\ IF BagIn(album_id(proc[p].play.track_id), albums)
       THEN requests' = requests
       ELSE \E now \in ClockReads(requests) :
                requests' = record_requests(requests, now, 1)
    /\ finish(p, proc[p].requests_made)
    /\ UNCHANGED <<elsewhere, sched, tracks, plays, artists, albums, bs, work>>

\* sync_missing_album fetched the missing album: insert_one is awaited
poll_sync_album(p) ==
    /\ proc[p].pc = "sync_album"
    /\ ~BagIn(album_id(proc[p].play.track_id), albums)
    /\ \E now \in ClockReads(requests) :
           requests' = record_requests(requests, now, 1)
    /\ proc' = [proc EXCEPT ![p].pc = "insert_album",
                            ![p].docs = <<album_id(proc[p].play.track_id)>>]
    /\ UNCHANGED <<elsewhere, sched, jobs, redis, tracks, plays, artists, albums, bs,
                   work, ret>>

\* sync_missing_album's insert_one succeeds: 1 is returned, requests_made is
\* incremented and the cycle ends
poll_insert_album(p) ==
    /\ proc[p].pc = "insert_album"
    /\ insert_many(albums, proc[p].docs).ok
    /\ albums' = insert_many(albums, proc[p].docs).col
    /\ finish(p, proc[p].requests_made + 1)
    /\ UNCHANGED <<elsewhere, sched, tracks, plays, artists, requests, bs, work>>

\* sync_missing_album's insert_one hits the unique index
poll_insert_album_raises(p) ==
    /\ proc[p].pc = "insert_album"
    /\ ~insert_many(albums, proc[p].docs).ok
    /\ raises(p, "db")
    /\ UNCHANGED <<elsewhere, sched, jobs, redis, tracks, plays, artists, albums,
                   requests, bs, work>>

-----------------------------------------------------------------------------
(* app/scheduler/jobs/spotify.py: poll_recently_played                     *)

\* get_recently_played(sp, 50)
limit == 50

\* lines 149-155: the hourly job or the manual endpoint starts the coroutine;
\* without a token it returns skipped, with one get_recently_played is awaited
recently_played_begin ==
    /\ sched = "running"
    /\ bs.pc = "idle"
    /\ work < MaxWork
    /\ bs' = IF redis.token THEN [IdleBackstop EXCEPT !.pc = "fetch"]
             ELSE IdleBackstop
    /\ UNCHANGED <<elsewhere, sched, jobs, redis, tracks, plays, artists, albums,
                   requests, proc, work, ret>>

\* lines 155-161: get_recently_played returned `n` events (none: the
\* coroutine returns 0 inserted, 0 skipped)
recently_played_fetched ==
    /\ bs.pc = "fetch"
    /\ \E n \in 0..Min(limit, MaxWork - work) :
         /\ work' = work + n
         /\ bs' = IF n = 0 THEN IdleBackstop
                  ELSE [IdleBackstop EXCEPT !.pc = "insert_play", !.left = n]
    /\ UNCHANGED <<elsewhere, sched, jobs, redis, tracks, plays, artists, albums,
                   requests, proc, ret>>

\* line 166: was_new = await insert_play(db, play), for the next event of the
\* list
recently_played_insert ==
    /\ bs.pc = "insert_play"
    /\ \E t \in Tracks, s \in RecentStamps :
         /\ plays' = insert_play(plays, RecentPlay(t, s), "backstop")
         /\ bs' = [bs EXCEPT !.pc = "upsert_track",
                             !.play = RecentPlay(t, s),
                             !.was_new =
                                 insert_play_was_new(plays, RecentPlay(t, s))]
    /\ UNCHANGED <<elsewhere, sched, jobs, redis, tracks, artists, albums, requests, proc,
                   work, ret>>

\* the track is upserted and counted whether the play was new or not
recently_played_upsert_counting ==
    /\ bs.pc = "upsert_track"
    /\ tracks' = upsert_track(tracks, bs.play, TRUE)
    /\ bs' = [bs EXCEPT
                !.pc = IF bs.left = 1 THEN "idle" ELSE "insert_play",
                !.left = @ - 1,
                !.play = NoPlay,
                !.was_new = FALSE,
                !.inserted = IF bs.was_new THEN @ + 1 ELSE @,
                !.skipped = IF bs.was_new THEN @ ELSE @ + 1]
    /\ UNCHANGED <<elsewhere, sched, jobs, redis, plays, artists, albums,
                   requests, proc, work, ret>>

\* the duplicates are not counted as skipped
recently_played_upsert_uncounted ==
    /\ bs.pc = "upsert_track"
    /\ tracks' = upsert_track(tracks, bs.play, bs.was_new)
    /\ bs' = [bs EXCEPT
                !.pc = IF bs.left = 1 THEN "idle" ELSE "insert_play",
                !.left = @ - 1,
                !.play = NoPlay,
                !.was_new = FALSE,
                !.inserted = IF bs.was_new THEN @ + 1 ELSE @]
    /\ UNCHANGED <<elsewhere, sched, jobs, redis, plays, artists, albums,
                   requests, proc, work, ret>>

\* lines 167-177: the track is upserted, counted only when the play was new;
\* after the last event the counts are returned
recently_played_upsert ==
    /\ bs.pc = "upsert_track"
    /\ tracks' = upsert_track(tracks, bs.play, bs.was_new)
    /\ bs' = [bs EXCEPT
                !.pc = IF bs.left = 1 THEN "idle" ELSE "insert_play",
                !.left = @ - 1,
                !.play = NoPlay,
                !.was_new = FALSE,
                !.inserted = IF bs.was_new THEN @ + 1 ELSE @,
                !.skipped = IF bs.was_new THEN @ ELSE @ + 1]
    /\ UNCHANGED <<elsewhere, sched, jobs, redis, plays, artists, albums, requests, proc,
                   work, ret>>

-----------------------------------------------------------------------------
(* Triggers of poll_current_playback                                       *)

PollJobPending == JobsWithId(jobs, POLL_ID) # {}

\* the date trigger fires while the scheduler runs: the job leaves the store
\* and the coroutine starts
job_poll_unauthenticated ==
    /\ sched = "running" /\ PollJobPending
    /\ poll_unauthenticated("job", job_fired(jobs, POLL_ID))

job_poll_fetch ==
    /\ sched = "running" /\ PollJobPending
    /\ poll_fetch("job", job_fired(jobs, POLL_ID))

\* the trigger fires while the job's previous instance still runs (the manual
\* endpoint re-registered it): max_instances is 1, the run is skipped and the
\* date job leaves the store
job_poll_skipped ==
    /\ sched = "running" /\ PollJobPending
    /\ proc["job"].pc # "idle"
    /\ jobs' = job_fired(jobs, POLL_ID)
    /\ UNCHANGED <<elsewhere, sched, redis, tracks, plays, artists, albums, requests,
                   proc, bs, work, ret>>

\* POST /spotify/poll/current-playback
manual_poll_unauthenticated ==
    /\ sched = "running"
    /\ poll_unauthenticated("manual", jobs)

manual_poll_fetch ==
    /\ sched = "running"
    /\ poll_fetch("manual", jobs)

Next ==
    \/ start_scheduler
    \/ stop_scheduler
    \/ callback
    \/ ExpireCache
    \/ job_poll_unauthenticated
    \/ job_poll_fetch
    \/ job_poll_skipped
    \/ manual_poll_unauthenticated
    \/ manual_poll_fetch
    \/ \E p \in Procs : poll_fetch_raises(p)
    \/ \E p \in Procs : poll_nothing_playing(p)
    \/ \E p \in Procs : poll_same_track(p)
    \/ \E p \in Procs : poll_new_listen(p)
    \/ \E p \in Procs : poll_upsert_track(p)
    \/ \E p \in Procs : poll_insert_play(p)
    \/ \E p \in Procs : poll_insert_play_new_track(p)
    \/ \E p \in Procs : poll_sync_artists(p)
    \/ \E p \in Procs : poll_insert_artists(p)
    \/ \E p \in Procs : poll_insert_artists_raises(p)
    \/ \E p \in Procs : poll_sync_album_none(p)
    \/ \E p \in Procs : poll_sync_album(p)
    \/ \E p \in Procs : poll_insert_album(p)
    \/ \E p \in Procs : poll_insert_album_raises(p)
    \/ recently_played_begin
    \/ recently_played_fetched
    \/ recently_played_insert
    \/ recently_played_upsert

Spec == Init /\ [][Next]_vars

-----------------------------------------------------------------------------
(* app/scheduler/jobs/spotify.py: the cache writes, over more snapshots     *)

\* lines 93-106 for a snapshot with any of these progress and duration values
snapshot_cached ==
    /\ \E t \in Tracks,
          pr \in {0, 1, 1000, 29000, 29001, 30000, 30001, 59999, 60000,
                  150000, 180000, 181000, 250000},
          du \in {0, 30000, 60000, 180000} :
         redis' = cache_snapshot(redis, NowPlaying(t, pr, du))
    /\ UNCHANGED <<sched, jobs, tracks, plays, artists, albums, requests,
                   proc, bs, work, ret, store_ok, clock, call, sy,
                   rw, crash, fav, mig>>

SpecTtl == Init /\ [][snapshot_cached]_vars

-----------------------------------------------------------------------------
(* app/services/rate_limiter.py: the calls on the limiter, with time passing *)

max_requests == 90
min_interval == 3
max_interval == 30
base_interval == 5

\* calls made on the limiter in one behaviour, and the last clock value
MaxCalls == 6
MaxClock == 31

\* the counts passed to record_requests, and the seconds between two calls
Counts == {1, 18, 27}
Ticks == {15, 16}

\* get_requests_in_window: _cleanup, then len(self.requests)
get_requests_in_window(q, now) == Len(cleanup(q, now))

\* usage >= tenths / 10
usage_at_least(count, tenths) == count * 10 >= tenths * max_requests

\* usage > tenths / 10, for usage = count / max_requests: the float quotient
\* is correctly rounded, so it exceeds the literal exactly when the fraction
\* does
usage_above(count, tenths) == count * 10 > tenths * max_requests

\* get_next_interval, from the number of requests in the window
get_next_interval(count) ==
    IF usage_above(count, 8) THEN max_interval
    ELSE IF usage_above(count, 5) THEN base_interval * 2
    ELSE IF usage_above(count, 2) THEN base_interval
    ELSE min_interval

\* a wait of one second at most
short_wait(count) == IF usage_above(count, 7) THEN 1 ELSE 0

\* wait_if_needed's wait_time, from the number of requests in the window
wait_time(count) ==
    IF usage_above(count, 9) THEN 3
    ELSE IF usage_above(count, 7) THEN 1
    ELSE 0

\* the call is made: `op` with the number of requests left in the window and
\* the value returned
called(op, count, result) ==
    call' = [n |-> call.n + 1, op |-> op, usage |-> count, result |-> result,
             log |-> IF op = "record_requests"
                     THEN append_now(call.log, clock, result)
                     ELSE call.log]

\* time passes between two calls
limiter_tick ==
    /\ \E d \in Ticks :
         /\ clock + d <= MaxClock
         /\ clock' = clock + d
    /\ UNCHANGED <<sched, jobs, redis, tracks, plays, artists, albums,
                   requests, proc, bs, work, ret, store_ok, call, sy,
                   rw, crash, fav, mig>>

\* record_requests(count)
limiter_record_requests ==
    /\ call.n < MaxCalls
    /\ \E count \in Counts :
         /\ requests' = record_requests(requests, clock, count)
         /\ called("record_requests", Len(requests'), count)
    /\ UNCHANGED <<sched, jobs, redis, tracks, plays, artists, albums,
                   proc, bs, work, ret, store_ok, clock, sy, rw, crash, fav, mig>>

\* get_usage_ratio(): the quotient is kept as its numerator, the denominator
\* being max_requests
limiter_get_usage_ratio ==
    /\ call.n < MaxCalls
    /\ requests' = cleanup(requests, clock)
    /\ called("get_usage_ratio", get_requests_in_window(requests, clock),
              get_requests_in_window(requests, clock))
    /\ UNCHANGED <<sched, jobs, redis, tracks, plays, artists, albums,
                   proc, bs, work, ret, store_ok, clock, sy, rw, crash, fav, mig>>

\* get_next_interval()
limiter_get_next_interval ==
    /\ call.n < MaxCalls
    /\ requests' = cleanup(requests, clock)
    /\ called("get_next_interval", get_requests_in_window(requests, clock),
              get_next_interval(get_requests_in_window(requests, clock)))
    /\ UNCHANGED <<sched, jobs, redis, tracks, plays, artists, albums,
                   proc, bs, work, ret, store_ok, clock, sy, rw, crash, fav, mig>>

\* await wait_if_needed(): asyncio.sleep(wait_time) when the usage is high,
\* then wait_time is returned
limiter_wait_if_needed ==
    /\ call.n < MaxCalls
    /\ clock + wait_time(get_requests_in_window(requests, clock)) <= MaxClock
    /\ requests' = cleanup(requests, clock)
    /\ clock' = clock + wait_time(get_requests_in_window(requests, clock))
    /\ called("wait_if_needed", get_requests_in_window(requests, clock),
              wait_time(get_requests_in_window(requests, clock)))
    /\ UNCHANGED <<sched, jobs, redis, tracks, plays, artists, albums,
                   proc, bs, work, ret, store_ok, sy, rw, crash, fav, mig>>

NextLimiter ==
    \/ limiter_tick
    \/ limiter_record_requests
    \/ limiter_get_usage_ratio
    \/ limiter_get_next_interval
    \/ limiter_wait_if_needed

SpecLimiter == Init /\ [][NextLimiter]_vars

-----------------------------------------------------------------------------
(* app/services/plays.py: sync_all_missing_metadata                        *)

\* runs of sync_all_missing_metadata started in one behaviour
MaxRuns == 3

\* range(0, len(missing_artist_ids), 50) and range(0, len(missing_album_ids), 20)
artist_batch == 50
album_batch == 20

\* seq[:n] and seq[n:]
Take(seq, n) == SubSeq(seq, 1, Min(n, Len(seq)))
Drop(seq, n) == SubSeq(seq, Min(n, Len(seq)) + 1, Len(seq))

\* the sequences that list each element of a set once: the $group stage of
\* an aggregation returns the ids in no particular order
Orderings(S) ==
    {s \in [1..Cardinality(S) -> S] : \A i, j \in DOMAIN s : s[i] = s[j] => i = j}

\* the artist ids and the album ids that the plays refer to
all_artist_ids(pl) ==
    UNION {Range(artist_ids(d.track_id)) : d \in BagToSet(pl)}
all_album_ids(pl) == {album_id(d.track_id) : d \in BagToSet(pl)}

\* what sp.albums(batch) returns: an entry can be null
AlbumDocs(batch) ==
    {SelectSeq(batch, LAMBDA a : a \in keep) : keep \in SUBSET Range(batch)}

\* a run ends with the locals `cur`: with the counts it returns, or with the
\* exception that left it; refs are the ids its aggregations read, and
\* unanswered tells whether the upstream returned no entry for a requested id
sync_ends(status, cur) ==
    sy' = [IdleSync EXCEPT
             !.runs = cur.runs,
             !.before = sy.last,
             !.last = Some([status |-> status,
                            artists_synced |-> cur.artists_synced,
                            albums_synced |-> cur.albums_synced,
                            refs |-> cur.refs,
                            unanswered |-> cur.unanswered])]

\* endpoints.py manual_sync_metadata with a token, and lines 249-257: the
\* counters start at 0 and the artist ids of the plays are aggregated
sync_begin ==
    /\ sy.pc = "idle"
    /\ sy.runs < MaxRuns
    /\ redis.token
    /\ \E ids \in Orderings(all_artist_ids(plays)) :
         sy' = [IdleSync EXCEPT !.pc = "find_artists", !.all_ids = ids,
                                !.refs = Range(ids), !.runs = sy.runs + 1,
                                !.last = sy.last, !.before = sy.before]
    /\ UNCHANGED <<sched, jobs, redis, tracks, plays, artists, albums,
                   requests, proc, bs, work, ret, store_ok, clock, call,
                   rw, crash, fav, mig>>

\* lines 260-265: the artist documents that exist are read and
\* missing_artist_ids is built; with none missing the loop body never runs
sync_find_artists ==
    /\ sy.pc = "find_artists"
    /\ LET missing == missing_ids(artists, sy.all_ids) IN
         sy' = [sy EXCEPT !.missing = missing,
                          !.pc = IF missing = <<>> THEN "aggregate_albums"
                                 ELSE "fetch_artists"]
    /\ UNCHANGED <<sched, jobs, redis, tracks, plays, artists, albums,
                   requests, proc, bs, work, ret, store_ok, clock, call,
                   rw, crash, fav, mig>>

\* lines 269-288: wait_if_needed (no wait: the window is far from full),
\* sp.artists for the next batch, record_requests(1), and the documents of
\* the entries that are not null
sync_fetch_artists ==
    /\ sy.pc = "fetch_artists"
    /\ LET batch == Take(sy.missing, artist_batch)
           rest == Drop(sy.missing, artist_batch) IN
         \E docs \in ArtistDocs(batch), now \in ClockReads(requests) :
           /\ wait_time(get_requests_in_window(requests, now)) = 0
           /\ requests' = record_requests(requests, now, 1)
           /\ sy' = [sy EXCEPT
                       !.missing = rest,
                       !.docs = docs,
                       !.unanswered = @ \/ Len(docs) < Len(batch),
                       !.pc = IF docs # <<>> THEN "insert_artists"
                              ELSE IF rest # <<>> THEN "fetch_artists"
                              ELSE "aggregate_albums"]
    /\ UNCHANGED <<sched, jobs, redis, tracks, plays, artists, albums,
                   proc, bs, work, ret, store_ok, clock, call,
                   rw, crash, fav, mig>>

\* line 271: sp.artists raises; no try block encloses it, the exception
\* leaves sync_all_missing_metadata
sync_fetch_artists_raises ==
    /\ sy.pc = "fetch_artists"
    /\ sync_ends("raised", sy)
    /\ UNCHANGED <<sched, jobs, redis, tracks, plays, artists, albums,
                   requests, proc, bs, work, ret, store_ok, clock, call,
                   rw, crash, fav, mig>>

\* lines 290-292: insert_many(docs) and artists_synced += len(docs)
sync_insert_artists ==
    /\ sy.pc = "insert_artists"
    /\ insert_many(artists, sy.docs).ok
    /\ artists' = insert_many(artists, sy.docs).col
    /\ sy' = [sy EXCEPT !.docs = <<>>,
                        !.artists_synced = @ + Len(sy.docs),
                        !.pc = IF sy.missing # <<>> THEN "fetch_artists"
                               ELSE "aggregate_albums"]
    /\ UNCHANGED <<sched, jobs, redis, tracks, plays, albums,
                   requests, proc, bs, work, ret, store_ok, clock, call,
                   rw, crash, fav, mig>>

\* lines 295-299: the album ids of the plays are aggregated
sync_aggregate_albums ==
    /\ sy.pc = "aggregate_albums"
    /\ \E ids \in Orderings(all_album_ids(plays)) :
         sy' = [sy EXCEPT !.all_ids = ids, !.refs = @ \cup Range(ids),
                          !.pc = "find_albums"]
    /\ UNCHANGED <<sched, jobs, redis, tracks, plays, artists, albums,
                   requests, proc, bs, work, ret, store_ok, clock, call,
                   rw, crash, fav, mig>>

\* lines 302-307 and, with no album missing, line 346: the counts are returned
sync_find_albums ==
    /\ sy.pc = "find_albums"
    /\ LET missing == missing_ids(albums, sy.all_ids) IN
         IF missing = <<>>
         THEN sync_ends("ok", sy)
         ELSE sy' = [sy EXCEPT !.missing = missing, !.pc = "fetch_albums"]
    /\ UNCHANGED <<sched, jobs, redis, tracks, plays, artists, albums,
                   requests, proc, bs, work, ret, store_ok, clock, call,
                   rw, crash, fav, mig>>

\* lines 311-335: wait_if_needed, sp.albums for the next batch,
\* record_requests(1), and the documents of the entries that are not null;
\* with no document and no batch left the counts are returned
sync_fetch_albums ==
    /\ sy.pc = "fetch_albums"
    /\ LET batch == Take(sy.missing, album_batch)
           rest == Drop(sy.missing, album_batch) IN
         \E docs \in AlbumDocs(batch), now \in ClockReads(requests) :
           /\ wait_time(get_requests_in_window(requests, now)) = 0
           /\ requests' = record_requests(requests, now, 1)
           /\ LET cur == [sy EXCEPT
                            !.missing = rest,
                            !.docs = docs,
                            !.unanswered = @ \/ Len(docs) < Len(batch)] IN
                IF docs # <<>>
                THEN sy' = [cur EXCEPT !.pc = "insert_albums"]
                ELSE IF rest # <<>>
                     THEN sy' = cur
                     ELSE sync_ends("ok", cur)
    /\ UNCHANGED <<sched, jobs, redis, tracks, plays, artists, albums,
                   proc, bs, work, ret, store_ok, clock, call,
                   rw, crash, fav, mig>>

\* line 313: sp.albums raises; no try block encloses it, the exception
\* leaves sync_all_missing_metadata
sync_fetch_albums_raises ==
    /\ sy.pc = "fetch_albums"
    /\ sync_ends("raised", sy)
    /\ UNCHANGED <<sched, jobs, redis, tracks, plays, artists, albums,
                   requests, proc, bs, work, ret, store_ok, clock, call,
                   rw, crash, fav, mig>>

\* lines 337-346: insert_many(docs), albums_synced += len(docs), and after
\* the last batch the counts are returned
sync_insert_albums ==
    /\ sy.pc = "insert_albums"
    /\ insert_many(albums, sy.docs).ok
    /\ albums' = insert_many(albums, sy.docs).col
    /\ LET cur == [sy EXCEPT !.docs = <<>>,
                             !.albums_synced = @ + Len(sy.docs)] IN
         IF sy.missing # <<>>
         THEN sy' = [cur EXCEPT !.pc = "fetch_albums"]
         ELSE sync_ends("ok", cur)
    /\ UNCHANGED <<sched, jobs, redis, tracks, plays, artists,
                   requests, proc, bs, work, ret, store_ok, clock, call,
                   rw, crash, fav, mig>>

\* the process starts, the user authorizes, the backstop stores plays, and
\* sync_all_missing_metadata is run through the endpoint
NextSync ==
    \/ start_scheduler
    \/ callback
    \/ recently_played_begin
    \/ recently_played_fetched
    \/ recently_played_insert
    \/ recently_played_upsert
    \/ sync_begin
    \/ sync_find_artists
    \/ sync_fetch_artists
    \/ sync_fetch_artists_raises
    \/ sync_insert_artists
    \/ sync_aggregate_albums
    \/ sync_find_albums
    \/ sync_fetch_albums
    \/ sync_fetch_albums_raises
    \/ sync_insert_albums

SpecSync == Init /\ [][NextSync]_vars

-----------------------------------------------------------------------------
(* app/scheduler/jobs/spotify.py: _schedule_next_poll when add_job raises  *)

\* from now on the scheduler's add_job raises
store_breaks ==
    /\ sched = "running"
    /\ store_ok
    /\ store_ok' = FALSE
    /\ UNCHANGED <<sched, jobs, redis, tracks, plays, artists, albums,
                   requests, proc, bs, work, ret, clock, call, sy,
                   rw, crash, fav, mig>>

\* the poll cycles with a scheduler whose add_job can start to raise
NextRegFail ==
    \/ start_scheduler
    \/ stop_scheduler
    \/ callback
    \/ ExpireCache
    \/ job_poll_unauthenticated
    \/ job_poll_fetch
    \/ job_poll_skipped
    \/ manual_poll_unauthenticated
    \/ manual_poll_fetch
    \/ \E p \in Procs : poll_fetch_raises(p)
    \/ \E p \in Procs : poll_nothing_playing(p)
    \/ \E p \in Procs : poll_same_track(p)
    \/ \E p \in Procs : poll_new_listen(p)
    \/ \E p \in Procs : poll_upsert_track(p)
    \/ \E p \in Procs : poll_insert_play(p)
    \/ \E p \in Procs : poll_insert_play_new_track(p)
    \/ \E p \in Procs : poll_sync_artists(p)
    \/ \E p \in Procs : poll_insert_artists(p)
    \/ \E p \in Procs : poll_insert_artists_raises(p)
    \/ \E p \in Procs : poll_sync_album_none(p)
    \/ \E p \in Procs : poll_sync_album(p)
    \/ \E p \in Procs : poll_insert_album(p)
    \/ \E p \in Procs : poll_insert_album_raises(p)
    \/ store_breaks

SpecRegFail == Init /\ [][NextRegFail]_vars

-----------------------------------------------------------------------------
(* app/services/rate_limiter.py: concurrent callers of the shared instance *)

\* calls on the rate limiter started in one behaviour
MaxOps == 3

\* the lock is taken for free whoever holds it
never_held(l) == TRUE

\* `with self._lock:` can be entered
lock_free(l) == l = None

\* the caller's locals change
caller_does(c, th) ==
    /\ rw' = [rw EXCEPT !.th[c] = th]
    /\ UNCHANGED requests

\* a caller calls record_requests(count) or get_requests_in_window()
window_call(c) ==
    /\ rw.th[c].pc = "idle"
    /\ rw.n < MaxOps
    /\ \/ \E count \in {1, 2} :
            rw' = [rw EXCEPT !.n = @ + 1,
                             !.th[c] = [IdleCaller EXCEPT
                                          !.pc = "lock",
                                          !.op = "record_requests",
                                          !.left = count]]
       \/ rw' = [rw EXCEPT !.n = @ + 1,
                           !.th[c] = [IdleCaller EXCEPT
                                        !.pc = "lock",
                                        !.op = "get_requests_in_window"]]
    /\ UNCHANGED <<sched, jobs, redis, tracks, plays, artists, albums,
                   requests, proc, bs, work, ret, store_ok, clock, call, sy,
                   crash, fav, mig>>

\* lines 35 and 50: with self._lock
window_acquire(c) ==
    /\ rw.th[c].pc = "lock"
    /\ lock_free(rw.lock)
    /\ rw' = [rw EXCEPT !.lock = c,
                        !.th[c].pc = IF rw.th[c].op = "record_requests"
                                     THEN "now" ELSE "cutoff"]
    /\ UNCHANGED <<sched, jobs, redis, tracks, plays, artists, albums,
                   requests, proc, bs, work, ret, store_ok, clock, call, sy,
                   crash, fav, mig>>

\* line 36: now = time.time()
window_now(c) ==
    /\ rw.th[c].pc = "now"
    /\ caller_does(c, [rw.th[c] EXCEPT !.now = clock, !.pc = "append"])
    /\ UNCHANGED <<sched, jobs, redis, tracks, plays, artists, albums,
                   proc, bs, work, ret, store_ok, clock, call, sy, crash, fav, mig>>

\* lines 37-38: self.requests.append(now), once per iteration
window_append(c) ==
    /\ rw.th[c].pc = "append"
    /\ requests' = Append(requests, rw.th[c].now)
    /\ rw' = [rw EXCEPT !.log = Append(@, rw.th[c].now),
                        !.th[c].left = @ - 1,
                        !.th[c].pc = IF rw.th[c].left = 1 THEN "cutoff"
                                     ELSE "append"]
    /\ UNCHANGED <<sched, jobs, redis, tracks, plays, artists, albums,
                   proc, bs, work, ret, store_ok, clock, call, sy, crash, fav, mig>>

\* line 44: cutoff = time.time() - self.window_seconds
window_cutoff(c) ==
    /\ rw.th[c].pc = "cutoff"
    /\ caller_does(c, [rw.th[c] EXCEPT !.cutoff = clock - window_seconds,
                                       !.pc = "test"])
    /\ UNCHANGED <<sched, jobs, redis, tracks, plays, artists, albums,
                   proc, bs, work, ret, store_ok, clock, call, sy, crash, fav, mig>>

\* line 45: while self.requests and self.requests[0] < cutoff; when the loop
\* ends record_requests leaves the lock and get_requests_in_window goes on to
\* line 52
window_test(c) ==
    /\ rw.th[c].pc = "test"
    /\ caller_does(c, [rw.th[c] EXCEPT
                         !.pc = IF requests # <<>>
                                   /\ Head(requests) < rw.th[c].cutoff
                                THEN "pop"
                                ELSE IF rw.th[c].op = "record_requests"
                                     THEN "unlock" ELSE "len"])
    /\ UNCHANGED <<sched, jobs, redis, tracks, plays, artists, albums,
                   proc, bs, work, ret, store_ok, clock, call, sy, crash, fav, mig>>

\* line 46: self.requests.popleft(); on an empty deque it raises IndexError,
\* which leaves the call
window_pop(c) ==
    /\ rw.th[c].pc = "pop"
    /\ IF requests = <<>>
       THEN caller_does(c, [rw.th[c] EXCEPT !.pc = "unlock"])
       ELSE /\ requests' = Tail(requests)
            /\ rw' = [rw EXCEPT !.th[c].pc = "test"]
    /\ UNCHANGED <<sched, jobs, redis, tracks, plays, artists, albums,
                   proc, bs, work, ret, store_ok, clock, call, sy, crash, fav, mig>>

\* line 52: return len(self.requests)
window_len(c) ==
    /\ rw.th[c].pc = "len"
    /\ caller_does(c, [rw.th[c] EXCEPT !.result = Len(requests),
                                       !.pc = "unlock"])
    /\ UNCHANGED <<sched, jobs, redis, tracks, plays, artists, albums,
                   proc, bs, work, ret, store_ok, clock, call, sy, crash, fav, mig>>

\* the with block is left: the lock is released and the call returns
window_release(c) ==
    /\ rw.th[c].pc = "unlock"
    /\ rw' = [rw EXCEPT !.lock = IF @ = c THEN None ELSE @,
                        !.th[c].pc = "idle"]
    /\ UNCHANGED <<sched, jobs, redis, tracks, plays, artists, albums,
                   requests, proc, bs, work, ret, store_ok, clock, call, sy,
                   crash, fav, mig>>

\* time passes, at any point of any call
window_tick ==
    /\ \E d \in Ticks :
         /\ clock + d <= MaxClock
         /\ clock' = clock + d
    /\ UNCHANGED <<sched, jobs, redis, tracks, plays, artists, albums,
                   requests, proc, bs, work, ret, store_ok, call, sy, rw,
                   crash, fav, mig>>

NextWindow ==
    \/ window_tick
    \/ \E c \in Callers : window_call(c)
    \/ \E c \in Callers : window_acquire(c)
    \/ \E c \in Callers : window_now(c)
    \/ \E c \in Callers : window_append(c)
    \/ \E c \in Callers : window_cutoff(c)
    \/ \E c \in Callers : window_test(c)
    \/ \E c \in Callers : window_pop(c)
    \/ \E c \in Callers : window_len(c)
    \/ \E c \in Callers : window_release(c)

SpecWindow == Init /\ [][NextWindow]_vars

-----------------------------------------------------------------------------
(* app/scheduler/jobs/spotify.py: overlapping cycles around a minute's end *)

\* lines 89-118, as poll_new_listen, for a snapshot whose start, now -
\* progress_ms, is computed a few seconds later, in the next clock minute
poll_new_listen_late(p) ==
    /\ proc[p].pc = "fetch"
    /\ \E t \in Tracks, s \in {62}, pr \in Progresses, du \in Durations :
         /\ is_new_listen(t, redis.last_track_id)
         /\ redis' = cache_snapshot(redis, NowPlaying(t, pr, du))
         /\ proc' = [proc EXCEPT ![p] =
                       [IdleProc EXCEPT !.pc = "upsert_track",
                                        !.play = Play(t, s),
                                        !.requests_made = 1]]
    /\ UNCHANGED <<elsewhere, sched, jobs, tracks, plays, artists, albums, requests, bs,
                   work, ret>>

\* the scheduled and the manually triggered poll cycles, with start times on
\* both sides of the end of a minute
NextOverlap ==
    \/ start_scheduler
    \/ stop_scheduler
    \/ callback
    \/ ExpireCache
    \/ job_poll_unauthenticated
    \/ job_poll_fetch
    \/ job_poll_skipped
    \/ manual_poll_unauthenticated
    \/ manual_poll_fetch
    \/ \E p \in Procs : poll_fetch_raises(p)
    \/ \E p \in Procs : poll_nothing_playing(p)
    \/ \E p \in Procs : poll_same_track(p)
    \/ \E p \in Procs : poll_new_listen(p)
    \/ \E p \in Procs : poll_upsert_track(p)
    \/ \E p \in Procs : poll_insert_play(p)
    \/ \E p \in Procs : poll_insert_play_new_track(p)
    \/ \E p \in Procs : poll_sync_artists(p)
    \/ \E p \in Procs : poll_insert_artists(p)
    \/ \E p \in Procs : poll_insert_artists_raises(p)
    \/ \E p \in Procs : poll_sync_album_none(p)
    \/ \E p \in Procs : poll_sync_album(p)
    \/ \E p \in Procs : poll_insert_album(p)
    \/ \E p \in Procs : poll_insert_album_raises(p)
    \/ \E p \in Procs : poll_new_listen_late(p)

SpecOverlap == Init /\ [][NextOverlap]_vars

-----------------------------------------------------------------------------
(* The event loop: which external calls run on it                          *)

\* the positions at which a coroutine has an external call in progress:
\* get_current_playback, the album-art download, sp.artists, sp.album
ExternalCallPcs == {"fetch", "album_art", "artists_request", "album_request"}

\* of those, the calls made directly from the coroutine, not through
\* asyncio.to_thread: generate_now_playing_svg's urlopen (services/cache.py),
\* sp.artists and sp.album (services/plays.py)
OnLoopPcs == {"album_art", "artists_request", "album_request"}

\* no coroutine is inside a call that keeps the loop's thread
LoopFree == \A p \in Procs : proc[p].pc \notin OnLoopPcs

\* lines 78-103: the snapshot is back from the thread; now_playing is cached
\* and generate_now_playing_svg starts to download the album art
loop_snapshot(p) ==
    /\ proc[p].pc = "fetch"
    /\ \E t \in Tracks, s \in Stamps, pr \in Progresses, du \in Durations :
         /\ redis' = cache_now_playing(redis, Some(NowPlaying(t, pr, du)),
                                       ttl_seconds(NowPlaying(t, pr, du)))
         /\ proc' = [proc EXCEPT ![p] =
                       [IdleProc EXCEPT !.pc = "album_art",
                                        !.play = Play(t, s),
                                        !.requests_made = 1]]
    /\ UNCHANGED <<elsewhere, sched, jobs, tracks, plays, artists, albums,
                   requests, bs, work, ret>>

\* lines 103-118 and 140-144: the download is over (fetch_image_as_base64
\* swallows its errors), the svg is cached with the TTL of now_playing, the
\* marker is read; a new listen awaits upsert_track, a known one ends the
\* cycle
loop_album_art(p) ==
    /\ proc[p].pc = "album_art"
    /\ LET now_playing == redis.now_playing[1].data
           cached == cache_now_playing_svg(redis, now_playing,
                                           ttl_seconds(now_playing))
       IN  /\ redis' = cached
           /\ IF is_new_listen(proc[p].play.track_id, redis.last_track_id)
              THEN /\ proc' = [proc EXCEPT ![p].pc = "upsert_track"]
                   /\ UNCHANGED <<jobs, ret>>
              ELSE /\ jobs' = schedule_next_poll(jobs, scheduler_set, 1)
                   /\ returns(p, [NoReturn EXCEPT
                                    !.status = "ok",
                                    !.obs = proc[p].play.track_id,
                                    !.playing = TRUE, !.requests_made = 1])
    /\ UNCHANGED <<elsewhere, sched, tracks, plays, artists, albums,
                   requests, bs, work>>

\* services/plays.py lines 165-179: the find is back; with ids missing
\* sp.artists(missing_ids) is called
loop_artists_find(p) ==
    /\ proc[p].pc = "sync_artists"
    /\ LET missing == missing_ids(artists, artist_ids(proc[p].play.track_id))
       IN  proc' = [proc EXCEPT
                      ![p].pc = IF missing = <<>> THEN "sync_album"
                                ELSE "artists_request",
                      ![p].docs = missing]
    /\ UNCHANGED <<elsewhere, sched, jobs, redis, tracks, plays, artists,
                   albums, requests, bs, work, ret>>

\* lines 179-199: sp.artists returns, record_requests(1), the documents of
\* the entries that are not null; insert_many is awaited when there are any
loop_artists_response(p) ==
    /\ proc[p].pc = "artists_request"
    /\ \E docs \in ArtistDocs(proc[p].docs), now \in ClockReads(requests) :
         /\ requests' = record_requests(requests, now, 1)
         /\ proc' = [proc EXCEPT
                       ![p].pc = IF docs = <<>> THEN "sync_album"
                                 ELSE "insert_artists",
                       ![p].docs = docs]
    /\ UNCHANGED <<elsewhere, sched, jobs, redis, tracks, plays, artists,
                   albums, bs, work, ret>>

\* lines 209-218: find_one is back; the album exists and the cycle ends, or
\* sp.album(album_id) is called
loop_album_find(p) ==
    /\ proc[p].pc = "sync_album"
    /\ IF BagIn(album_id(proc[p].play.track_id), albums)
       THEN finish(p, proc[p].requests_made)
       ELSE /\ proc' = [proc EXCEPT ![p].pc = "album_request"]
            /\ UNCHANGED <<jobs, redis, ret>>
    /\ UNCHANGED <<elsewhere, sched, tracks, plays, artists, albums,
                   requests, bs, work>>

\* lines 218-236: sp.album returns, record_requests(1); without an album the
\* cycle ends, with one insert_one is awaited
loop_album_response(p) ==
    /\ proc[p].pc = "album_request"
    /\ \E now \in ClockReads(requests) :
         requests' = record_requests(requests, now, 1)
    /\ \/ /\ finish(p, proc[p].requests_made)
       \/ /\ proc' = [proc EXCEPT
                        ![p].pc = "insert_album",
                        ![p].docs = <<album_id(proc[p].play.track_id)>>]
          /\ UNCHANGED <<jobs, redis, ret>>
    /\ UNCHANGED <<elsewhere, sched, tracks, plays, artists, albums, bs, work>>

\* the hourly cron trigger of poll_recently_played fires: the loop runs the
\* timer's callback
backstop_timer == LoopFree /\ recently_played_begin

\* the scheduler's timers and the coroutines' other steps run when the loop's
\* thread is free
NextLoop ==
    \/ start_scheduler
    \/ callback
    \/ LoopFree /\ job_poll_unauthenticated
    \/ LoopFree /\ job_poll_fetch
    \/ backstop_timer
    \/ LoopFree /\ recently_played_fetched
    \/ LoopFree /\ recently_played_insert
    \/ LoopFree /\ recently_played_upsert
    \/ \E p \in Procs : LoopFree /\ poll_fetch_raises(p)
    \/ \E p \in Procs : LoopFree /\ poll_nothing_playing(p)
    \/ \E p \in Procs : LoopFree /\ loop_snapshot(p)
    \/ \E p \in Procs : loop_album_art(p)
    \/ \E p \in Procs : LoopFree /\ poll_upsert_track(p)
    \/ \E p \in Procs : LoopFree /\ poll_insert_play(p)
    \/ \E p \in Procs : LoopFree /\ poll_insert_play_new_track(p)
    \/ \E p \in Procs : LoopFree /\ loop_artists_find(p)
    \/ \E p \in Procs : loop_artists_response(p)
    \/ \E p \in Procs : LoopFree /\ poll_insert_artists(p)
    \/ \E p \in Procs : LoopFree /\ loop_album_find(p)
    \/ \E p \in Procs : loop_album_response(p)
    \/ \E p \in Procs : LoopFree /\ poll_insert_album(p)

SpecLoop == Init /\ [][NextLoop]_vars

-----------------------------------------------------------------------------
(* app/scheduler/jobs/spotify.py: the interval of _schedule_next_poll      *)

\* the largest requests_made that _schedule_next_poll is called with
MaxRequestsMade == 10

\* _schedule_next_poll(a) and _schedule_next_poll(b): line 47 computes the
\* interval of each call from its argument alone
schedule_next_poll_intervals ==
    /\ \E a, b \in 0..MaxRequestsMade :
         call' = [NoCall EXCEPT !.op = "next_interval",
                                !.usage = <<a, b>>,
                                !.result = <<next_interval(a), next_interval(b)>>]
    /\ UNCHANGED <<sched, jobs, redis, tracks, plays, artists, albums, requests, proc,
                   bs, work, ret, store_ok, clock, sy, rw, crash, fav, mig>>

NextInterval == schedule_next_poll_intervals

SpecInterval == Init /\ [][NextInterval]_vars

-----------------------------------------------------------------------------
(* A new-listen cycle interrupted between its two durable writes           *)

\* the process dies while a new-listen cycle is suspended in
\* `await insert_play(db, play)` (line 121), upsert_track (line 118) having
\* returned, and is started again: the coroutines and the in-memory request
\* window are gone, the lifespan registers the jobs afresh, MongoDB and Redis
\* keep what was written. `crash` remembers the play, the play log at the
\* interruption and the durable state the cycle would have left had it run
\* to its end
process_restarted ==
    /\ sched = "running"
    /\ crash = Nothing
    /\ \E p \in Procs :
         /\ proc[p].pc = "insert_play"
         /\ crash' = Some([play |-> proc[p].play,
                           before |-> plays,
                           tracks |-> tracks,
                           plays |-> insert_play(plays, proc[p].play, "live")])
    /\ proc' = [q \in Procs |-> IdleProc]
    /\ bs' = IdleBackstop
    /\ jobs' = register_jobs(EmptyBag)
    /\ requests' = <<>>
    /\ ret' = [NoReturn EXCEPT !.status = "raised", !.error = "interrupted",
                               !.obs = "error", !.prev = ret.obs]
    /\ UNCHANGED <<sched, redis, tracks, plays, artists, albums, work, store_ok,
                   clock, call, sy, rw, fav, mig>>

NextCrash ==
    \/ start_scheduler
    \/ stop_scheduler
    \/ callback
    \/ ExpireCache
    \/ job_poll_unauthenticated
    \/ job_poll_fetch
    \/ \E p \in Procs : poll_fetch_raises(p)
    \/ \E p \in Procs : poll_nothing_playing(p)
    \/ \E p \in Procs : poll_same_track(p)
    \/ \E p \in Procs : poll_new_listen(p)
    \/ \E p \in Procs : poll_upsert_track(p)
    \/ \E p \in Procs : poll_insert_play(p)
    \/ \E p \in Procs : poll_insert_play_new_track(p)
    \/ \E p \in Procs : poll_sync_artists(p)
    \/ \E p \in Procs : poll_insert_artists(p)
    \/ \E p \in Procs : poll_sync_album_none(p)
    \/ \E p \in Procs : poll_sync_album(p)
    \/ \E p \in Procs : poll_insert_album(p)
    \/ process_restarted

SpecCrash == Init /\ [][NextCrash]_vars

-----------------------------------------------------------------------------
(* The self-rescheduling chain alone: no manual trigger                    *)

\* poll_current_playback is started by its date job only; the hourly
\* poll_recently_played job runs beside it
NextChain ==
    \/ start_scheduler
    \/ stop_scheduler
    \/ callback
    \/ ExpireCache
    \/ job_poll_unauthenticated
    \/ job_poll_fetch
    \/ \E p \in Procs : poll_fetch_raises(p)
    \/ \E p \in Procs : poll_nothing_playing(p)
    \/ \E p \in Procs : poll_same_track(p)
    \/ \E p \in Procs : poll_new_listen(p)
    \/ \E p \in Procs : poll_upsert_track(p)
    \/ \E p \in Procs : poll_insert_play(p)
    \/ \E p \in Procs : poll_insert_play_new_track(p)
    \/ \E p \in Procs : poll_sync_artists(p)
    \/ \E p \in Procs : poll_insert_artists(p)
    \/ \E p \in Procs : poll_sync_album_none(p)
    \/ \E p \in Procs : poll_sync_album(p)
    \/ \E p \in Procs : poll_insert_album(p)
    \/ recently_played_begin
    \/ recently_played_fetched
    \/ recently_played_insert
    \/ recently_played_upsert

SpecChain == Init /\ [][NextChain]_vars

-----------------------------------------------------------------------------
(* A pause in playback: the process starts over a Redis and a database     *)
(* that an earlier run left behind                                         *)

\* the track that the last cycle of the earlier run observed
SeenBefore == Play("t1", 57)

\* the earlier run authorized, observed t1 as a new listen and set
\* LAST_TRACK_KEY (which has no expiry); the two cache keys have expired, and
\* the cached token is still there or is gone
InitGap ==
    /\ sched = "stopped"
    /\ jobs = EmptyBag
    /\ \E token \in BOOLEAN :
         redis = [token |-> token, now_playing |-> Nothing,
                  now_playing_svg |-> Nothing,
                  last_track_id |-> SeenBefore.track_id]
    /\ plays = insert_play(EmptyBag, SeenBefore, "live")
    /\ tracks = upsert_track(NoTracks, SeenBefore, TRUE)
    /\ artists = EmptyBag
    /\ albums = EmptyBag
    /\ requests = <<>>
    /\ proc = [p \in Procs |-> IdleProc]
    /\ bs = IdleBackstop
    /\ work = 0
    /\ ret = NoReturn
    /\ store_ok = TRUE
    /\ clock = 0
    /\ call = NoCall
    /\ sy = IdleSync
    /\ rw = IdleWindow
    /\ crash = Nothing
    /\ fav = IdleFav
    /\ mig = IdleMig

SpecGap == InitGap /\ [][NextChain]_vars

-----------------------------------------------------------------------------
(* app/routers/spotify/endpoints.py: sync_favorites                        *)

\* requests to POST /spotify/sync-favorites in one behaviour
MaxFavRuns == 2

\* the page size, `limit = 50` in the code, scaled down
FavPage == 2

\* the liked songs: each saved track once, the newest first
Libraries == UNION {Orderings(S) : S \in SUBSET {"f1", "f2", "f3", "f4"}}

\* get_saved_tracks_page(sp, limit, offset): the saved tracks of the page
\* that starts at offset, and the size of the library
get_saved_tracks_page(library, page, offset) ==
    [tracks |-> SubSeq(library, offset + 1, Min(offset + page, Len(library))),
     total |-> Len(library)]

\* the request ends and returns its counts
favorites_return(cur) ==
    fav' = [cur EXCEPT !.pc = "idle", !.status = "ok"]

\* line 144: new_in_page < len(tracks) ends the loop
known_territory(new_in_page, len_tracks) == new_in_page < len_tracks

\* lines 111-121: without a cached token the request returns an error; with
\* one the counters are initialised. The library is what the user has liked
\* by now
sync_favorites_begin ==
    /\ fav.pc = "idle"
    /\ fav.runs < MaxFavRuns
    /\ IF ~redis.token
       THEN fav' = [fav EXCEPT !.runs = @ + 1, !.status = "error"]
       ELSE \E library \in Libraries :
              fav' = [fav EXCEPT !.pc = "page", !.library = library,
                                 !.offset = 0, !.inserted_count = 0,
                                 !.pages_fetched = 0, !.runs = @ + 1,
                                 !.status = None]
    /\ UNCHANGED <<sched, jobs, redis, tracks, plays, artists, albums, requests, proc,
                   bs, work, ret, store_ok, clock, call, sy, rw, crash, mig>>

\* lines 127-152, one iteration of the loop: the page is fetched, each of its
\* tracks that has no document is inserted, and the loop ends on an empty
\* page, on a page with a known track, or when offset reaches total
sync_favorites_page ==
    /\ fav.pc = "page"
    /\ LET got == get_saved_tracks_page(fav.library, FavPage, fav.offset)
           new == {t \in Range(got.tracks) : t \notin fav.favorites}
           cur == [fav EXCEPT !.pages_fetched = @ + 1,
                              !.favorites = @ \cup new,
                              !.inserted_count = @ + Cardinality(new)]
       IN  IF got.tracks = <<>>
           THEN favorites_return(cur)
           ELSE IF known_territory(Cardinality(new), Len(got.tracks))
           THEN favorites_return(cur)
           ELSE IF fav.offset + FavPage >= got.total
           THEN favorites_return([cur EXCEPT !.offset = @ + FavPage])
           ELSE fav' = [cur EXCEPT !.offset = @ + FavPage]
    /\ UNCHANGED <<sched, jobs, redis, tracks, plays, artists, albums, requests, proc,
                   bs, work, ret, store_ok, clock, call, sy, rw, crash, mig>>

NextFavorites ==
    \/ start_scheduler
    \/ callback
    \/ sync_favorites_begin
    \/ sync_favorites_page

SpecFavorites == Init /\ [][NextFavorites]_vars

-----------------------------------------------------------------------------
(* Migration 003: round play timestamps to the minute                      *)

\* length of to_list(length=1000) on the duplicate groups, scaled down
GroupLimit == 2

\* the documents a plays collection may hold before the migration: _id,
\* track_id and an unrounded listened_at (seconds)
OldPlays ==
    {[id |-> 1, track_id |-> "t1", listened_at |-> 5],
     [id |-> 2, track_id |-> "t1", listened_at |-> 30],
     [id |-> 3, track_id |-> "t1", listened_at |-> 65],
     [id |-> 4, track_id |-> "t1", listened_at |-> 90],
     [id |-> 5, track_id |-> "t2", listened_at |-> 5],
     [id |-> 6, track_id |-> "t2", listened_at |-> 30],
     [id |-> 7, track_id |-> "t2", listened_at |-> 65],
     [id |-> 8, track_id |-> "t2", listened_at |-> 90]}

\* $dateTrunc with unit "minute"
dateTrunc(date) == date - (date % 60)

\* the $project / $group / $match stages: the groups of documents sharing
\* (track_id, listened_at_rounded) that count more than one document
duplicate_groups(collection) ==
    {g \in {{e \in BagToSet(collection) :
                /\ e.track_id = d.track_id
                /\ dateTrunc(e.listened_at) = dateTrunc(d.listened_at)} :
            d \in BagToSet(collection)} :
        Cardinality(g) > 1}

\* sorted(dup["docs"], key=listened_at)[1:]: every document of the group
\* but the first of the sorted list
docs_after_first(docs) ==
    LET first == CHOOSE d \in docs :
                     \A e \in docs : d.listened_at <= e.listened_at
    IN  docs \ {first}

InitMigration ==
    /\ sched = "stopped"
    /\ jobs = EmptyBag
    /\ redis = [token |-> FALSE, now_playing |-> Nothing,
                now_playing_svg |-> Nothing, last_track_id |-> None]
    /\ \E S \in SUBSET OldPlays : plays = SetToBag(S)
    /\ tracks = NoTracks
    /\ artists = EmptyBag
    /\ albums = EmptyBag
    /\ requests = <<>>
    /\ proc = [p \in Procs |-> IdleProc]
    /\ bs = IdleBackstop
    /\ work = 0
    /\ ret = NoReturn
    /\ store_ok = TRUE
    /\ clock = 0
    /\ call = NoCall
    /\ sy = IdleSync
    /\ rw = IdleWindow
    /\ crash = Nothing
    /\ fav = IdleFav
    /\ mig = IdleMig

\* migrate up to the await of the cursor's to_list(length=1000): at most
\* GroupLimit groups are read, in the order the $group stage emits them,
\* which is not specified
migrate_aggregate ==
    /\ mig.pc = "idle"
    /\ LET groups == duplicate_groups(plays)
       IN  \E duplicates \in SUBSET groups :
               /\ Cardinality(duplicates) = Min(GroupLimit, Cardinality(groups))
               /\ mig' = [pc            |-> "delete",
                          ids_to_delete |->
                              {d.id : d \in UNION {docs_after_first(docs) :
                                                      docs \in duplicates}},
                          before        |-> BagToSet(plays)]
    /\ UNCHANGED <<sched, jobs, redis, tracks, plays, artists, albums,
                   requests, proc, bs, work, ret, store_ok, clock, call, sy,
                   rw, crash, fav>>

\* if ids_to_delete: delete_many({"_id": {"$in": ids_to_delete}})
migrate_delete ==
    /\ mig.pc = "delete"
    /\ plays' = IF mig.ids_to_delete = {}
                THEN plays
                ELSE SetToBag({d \in BagToSet(plays) :
                                  d.id \notin mig.ids_to_delete})
    /\ mig' = [mig EXCEPT !.pc = "round"]
    /\ UNCHANGED <<sched, jobs, redis, tracks, artists, albums,
                   requests, proc, bs, work, ret, store_ok, clock, call, sy,
                   rw, crash, fav>>

\* the update pipeline: $set listened_at to its $dateTrunc and $merge into
\* plays on _id, whenMatched replace
migrate_round ==
    /\ mig.pc = "round"
    /\ plays' = SetToBag({[d EXCEPT !.listened_at = dateTrunc(d.listened_at)] :
                             d \in BagToSet(plays)})
    /\ mig' = [mig EXCEPT !.pc = "done"]
    /\ UNCHANGED <<sched, jobs, redis, tracks, artists, albums,
                   requests, proc, bs, work, ret, store_ok, clock, call, sy,
                   rw, crash, fav>>

NextMigration ==
    \/ migrate_aggregate
    \/ migrate_delete
    \/ migrate_round

SpecMigration == InitMigration /\ [][NextMigration]_vars

-----------------------------------------------------------------------------
(* Properties                                                              *)

Abs(x) == IF x < 0 THEN 0 - x ELSE x

\* the scheduler is shut down in this step, which cancels the tasks of its
\* running jobs: no statement of a coroutine runs in it
ShutdownStep == sched = "running" /\ sched' = "shutdown"

\* the number of jobs the store holds under an id, copies counted
PendingCount(js, id) == BagCardinality([j \in JobsWithId(js, id) |-> js[j]])

\* the rows of the play log stored for a track, copies counted
RowsOf(pl, t) ==
    BagCardinality([d \in {e \in BagToSet(pl) : e.track_id = t} |-> pl[d]])

\* a row of the play log starts in the same clock minute as a play of the
\* same track
SameMinute(d, play) ==
    d.track_id = play.track_id /\ d.played_at \div 60 = play.played_at \div 60

\* the track of the snapshot in the now-playing cache
Cached(r) == r.now_playing[1].data

\* in this step coroutine p gets a snapshot back from get_current_playback
GetsSnapshot(p) ==
    /\ proc[p].pc = "fetch" /\ proc'[p].pc # "fetch"
    /\ ~(proc'[p].pc = "idle" /\ ret'.status = "raised")
    /\ redis'.now_playing # Nothing

\* C1: when the fetch of the current playback raises during a poll cycle, the
\* exception does not escape: the cycle ends as skipped and the next poll
\* invocation is registered with the scheduler
C1_FetchErrorIsSkipped ==
    [][\A p \in Procs :
         proc[p].pc = "fetch" /\ proc'[p].pc = "idle" /\ ret'.error = "fetch"
         => /\ ret'.status = "skipped"
            /\ JobsWithId(jobs', POLL_ID) # {}]_vars

\* C2: the self-rescheduling chain never breaks: while the scheduler is
\* running and no poll cycle is in progress, the next poll invocation is
\* pending, so that the timer can fire again
C2_ChainAlive ==
    sched = "running" /\ (\A p \in Procs : proc[p].pc = "idle")
    => PollJobPending

\* C3: in every reachable state the scheduler holds at most one pending
\* invocation under the id poll_current_playback, also when manual and
\* scheduled polls overlap
C3_AtMostOnePending == PendingCount(jobs, POLL_ID) <= 1

\* a manual poll registered the next invocation while the scheduled instance
\* is still running: the instance's own registration will find it pending
C3_Overlap ==
    /\ sched = "running"
    /\ proc["job"].pc # "idle"
    /\ proc["manual"].pc = "idle"
    /\ ret.obs # None
    /\ PollJobPending

\* every row is stored once, and no two rows of a track start in the same
\* clock minute
OneRowPerTrackMinute ==
    /\ \A d \in BagToSet(plays) : CopiesIn(d, plays) = 1
    /\ \A a, b \in BagToSet(plays) :
         a.track_id = b.track_id /\ a.played_at \div 60 = b.played_at \div 60
         => a = b

\* an insert attempt for a (track, minute) that is stored already adds no
\* row and raises nothing: the backstop reports it as skipped, the live cycle
\* goes on
SecondAttemptSkipped ==
    /\ bs.pc = "insert_play" /\ bs'.pc = "upsert_track"
       /\ (\E d \in BagToSet(plays) : SameMinute(d, bs'.play))
       => plays' = plays /\ ~bs'.was_new
    /\ bs.pc = "upsert_track" /\ bs'.pc # "upsert_track" /\ ~bs.was_new
       => bs'.skipped = bs.skipped + 1 /\ bs'.inserted = bs.inserted
    /\ \A p \in Procs :
         proc[p].pc = "insert_play" /\ proc'[p].pc # "insert_play"
         /\ (\E d \in BagToSet(plays) : SameMinute(d, proc[p].play))
         => /\ plays' = plays
            /\ proc'[p].pc \in {"idle", "sync_artists"}
            /\ proc'[p].pc = "idle" => ret'.status = "ok"

\* C4: of two insert attempts with the same track id and the same timestamp
\* rounded down to the minute, by the live poller, the backstop or both, one
\* row persists and the second attempt is skipped, not an error: the number
\* of rows for the track and minute is 1
C4_OneEntryPerMinute ==
    []OneRowPerTrackMinute /\ [][ShutdownStep \/ SecondAttemptSkipped]_vars

\* the live poller stored a play that started at second 57; the backstop
\* reported the same track at second 59 and its insert was rejected
C4_BackstopRejected ==
    /\ bs.pc = "upsert_track"
    /\ bs.play = RecentPlay("t2", 59)
    /\ ~bs.was_new
    /\ \E d \in BagToSet(plays) :
         d.track_id = "t2" /\ d.source = "live" /\ d.played_at = 57
    /\ RowsOf(plays, "t2") = 1

\* C5: when the live poller and the backstop each observe the same listening
\* event, with start times a few seconds apart, the play log holds one entry
\* for the event: never a live row and a backstop row of one track within
\* five seconds of each other
C5_OneEntryPerEvent ==
    \A a, b \in BagToSet(plays) :
        a.source = "live" /\ b.source = "backstop" /\ a.track_id = b.track_id
        => Abs(a.played_at - b.played_at) > 5

\* C6: listen_count is incremented only when the insert of the play log entry
\* for the same event succeeded: once every cycle has run to its end, no
\* track counts more listens than the play log has rows for it
C6_CountedOnlyWhenInserted ==
    (\A p \in Procs : proc[p].pc = "idle") /\ bs.pc = "idle"
    /\ sched # "shutdown"
    => \A t \in Tracks : tracks[t].listen_count <= RowsOf(plays, t)

\* C7: a poll cycle that starts with no cached token returns skipped, makes
\* no upstream call and no cache or durable write, and registers the next
\* poll at the short default interval
C7_UnauthenticatedSkips ==
    [][~redis.token /\ work' = work + 1 /\ bs' = bs
       => /\ ret'.status = "skipped"
          /\ proc' = proc
          /\ requests' = requests
          /\ redis' = redis
          /\ tracks' = tracks /\ plays' = plays
          /\ artists' = artists /\ albums' = albums
          /\ JobsWithId(jobs', POLL_ID) = {PollJob(1)}
          /\ PendingCount(jobs', POLL_ID) = 1]_vars

\* two unauthenticated cycles in a row, the next one pending
C7_SkippedTwice ==
    /\ ret.status = "skipped"
    /\ ret.obs = "unauthenticated" /\ ret.prev = "unauthenticated"
    /\ ~redis.token
    /\ JobsWithId(jobs, POLL_ID) = {PollJob(1)}

\* C8: a poll cycle that receives no snapshot deletes the now-playing entry,
\* the rendered-widget entry and the last-seen marker and writes nothing
\* durable; this covers the second of two such cycles in a row, after which
\* the keys are still absent and the stores unchanged
C8_NothingPlayingClears ==
    [][\A p \in Procs :
         /\ proc[p].pc = "fetch" /\ proc'[p].pc = "idle"
         /\ ret'.status = "ok" /\ ~ret'.playing
         => /\ redis'.now_playing = Nothing
            /\ redis'.now_playing_svg = Nothing
            /\ redis'.last_track_id = None
            /\ redis'.token = redis.token
            /\ tracks' = tracks /\ plays' = plays
            /\ artists' = artists /\ albums' = albums]_vars

\* two cycles without a snapshot in a row
C8_NothingTwice ==
    /\ ret.obs = "nothing" /\ ret.prev = "nothing"
    /\ redis.now_playing = Nothing
    /\ redis.now_playing_svg = Nothing
    /\ redis.last_track_id = None

\* C9: when a cycle observes the track the previous cycle observed, whatever
\* the progress, it reports new_listen = false, upserts no track and inserts
\* no play, and rewrites the now-playing cache with a TTL of the remaining
\* time plus 30 seconds, at least 60
C9_SameTrack ==
    [][\A p \in Procs :
         GetsSnapshot(p) /\ Alone(p) /\ Cached(redis').track_id = ret.obs
         => /\ proc'[p].pc = "idle"
            /\ ret'.status = "ok" /\ ret'.playing /\ ~ret'.new_listen
            /\ tracks' = tracks /\ plays' = plays
            /\ LET remaining == (Cached(redis').duration_ms
                                 - Cached(redis').progress_ms) \div 1000
               IN  redis'.now_playing[1].ex =
                       IF remaining + 30 >= 60 THEN remaining + 30 ELSE 60]_vars

\* the same track observed twice in a row, the second time 10 seconds before
\* its end
C9_SameTrackTwice ==
    /\ ret.prev = "t1" /\ ret.obs = "t1"
    /\ ret.playing /\ ~ret.new_listen
    /\ redis.now_playing =
           Some([data |-> NowPlaying("t1", 170000, 180000), ex |-> 60])

\* a cycle that observes another track than the previous cycle takes the
\* new-listen branch with one request made
ChangeIsNewListen ==
    \A p \in Procs :
        GetsSnapshot(p) /\ Alone(p) /\ ret.obs \in Tracks
        /\ Cached(redis').track_id # ret.obs
        => /\ proc'[p].pc = "upsert_track"
           /\ proc'[p].play.track_id = Cached(redis').track_id
           /\ proc'[p].requests_made = 1

\* the new-listen branch adds 1 to the listen_count of the observed track and
\* touches no other track
NewListenCountsOnce ==
    \A p \in Procs :
        proc[p].pc = "upsert_track" /\ proc'[p].pc # "upsert_track"
        => /\ proc'[p].pc = "insert_play"
           /\ tracks'[proc[p].play.track_id].listen_count =
                  tracks[proc[p].play.track_id].listen_count + 1
           /\ \A t \in Tracks \ {proc[p].play.track_id} : tracks'[t] = tracks[t]

\* a new-listen cycle that returns reports new_listen with requests_made >= 1
NewListenReported ==
    \A p \in Procs :
        /\ proc[p].pc \in {"insert_play", "sync_album", "insert_album"}
        /\ proc'[p].pc = "idle" /\ ret'.status # "raised"
        => ret'.status = "ok" /\ ret'.new_listen /\ ret'.requests_made >= 1

\* the insert of a new-listen cycle that follows a cycle which observed
\* another track
InsertAfterChange(p) ==
    /\ proc[p].pc = "insert_play" /\ proc'[p].pc # "insert_play"
    /\ ~ShutdownStep
    /\ Alone(p) /\ ret.obs \in Tracks \ {proc[p].play.track_id}

\* C10 as stated: when the observed track changes between two consecutive
\* cycles, the second cycle adds exactly one row to the play log
C10_ExactlyOneNewRow ==
    [][\A p \in Procs :
         InsertAfterChange(p)
         => BagCardinality(plays') = BagCardinality(plays) + 1]_vars

\* C10: when the observed track changes between two consecutive cycles, the
\* second cycle reports a new listen, the new track's listen_count increases
\* by exactly 1, requests_made is at least 1, and one row is added to the
\* play log unless a row of the track in the same minute is stored already,
\* in which case none is added
C10_NewListen ==
    [][ShutdownStep \/
       /\ ChangeIsNewListen
       /\ NewListenCountsOnce
       /\ NewListenReported
       /\ \A p \in Procs :
            InsertAfterChange(p)
            => IF \E d \in BagToSet(plays) : SameMinute(d, proc[p].play)
               THEN plays' = plays
               ELSE /\ BagCardinality(plays') = BagCardinality(plays) + 1
                    /\ RowsOf(plays', proc[p].play.track_id) =
                           RowsOf(plays, proc[p].play.track_id) + 1]_vars

\* t1 was observed, then t2: the second cycle stored a live row for t2 and
\* reported a new listen
C10_TrackChanged ==
    /\ ret.prev = "t1" /\ ret.obs = "t2"
    /\ ret.new_listen /\ ret.requests_made >= 1
    /\ tracks["t2"].listen_count = 1
    /\ \E d \in BagToSet(plays) : d.track_id = "t2" /\ d.source = "live"

\* a poll cycle of p that went as far as the fetch returns in this step
ReturnsOk(p) ==
    proc[p].pc # "idle" /\ proc'[p].pc = "idle" /\ ret'.status = "ok"

\* C11: when a poll cycle returns, the last-seen marker equals the track id
\* of the snapshot the cycle observed, or is unset if it observed none; and a
\* cycle takes the new-listen branch, and reports new_listen, exactly when the
\* observed track id differs from the marker value it read
C11_MarkerFollowsSnapshot ==
    [][\A p \in Procs :
         /\ ReturnsOk(p)
            => /\ redis'.last_track_id =
                      IF ret'.playing THEN ret'.obs ELSE None
               /\ ret'.playing
                  => ret'.obs = IF proc[p].pc = "fetch"
                               THEN Cached(redis').track_id
                               ELSE proc[p].play.track_id
               /\ ret'.new_listen <=> proc[p].pc # "fetch"
         /\ GetsSnapshot(p)
            => IF Cached(redis').track_id # redis.last_track_id
               THEN /\ proc'[p].pc = "upsert_track"
                    /\ proc'[p].play.track_id = Cached(redis').track_id
               ELSE ReturnsOk(p) /\ ~ret'.new_listen]_vars

\* a new listen of t2 was reported after a cycle without a snapshot had
\* unset the marker: the marker is t2
C11_MarkerSet ==
    /\ ret.status = "ok" /\ ret.new_listen
    /\ ret.prev = "nothing" /\ ret.obs = "t2"
    /\ redis.last_track_id = "t2"
    /\ \A p \in Procs : proc[p].pc = "idle"

\* C12: get_next_interval returns max_interval when usage > 0.8, twice
\* base_interval when 0.5 < usage <= 0.8, base_interval when
\* 0.2 < usage <= 0.5 and min_interval when usage <= 0.2; a usage of exactly
\* 0.8, 0.5 or 0.2 selects the lower tier
C12_IntervalTiers ==
    call.op = "get_next_interval"
    => LET u == call.usage * 10
           m == max_requests
       IN  /\ u > 8 * m => call.result = max_interval
           /\ 5 * m < u /\ u <= 8 * m => call.result = 2 * base_interval
           /\ 2 * m < u /\ u <= 5 * m => call.result = base_interval
           /\ u <= 2 * m => call.result = min_interval

\* a usage of exactly 0.8 got twice the base interval
C12_AtBoundary ==
    /\ call.op = "get_next_interval"
    /\ call.usage * 10 = 8 * max_requests
    /\ call.result = 2 * base_interval

\* C13: wait_if_needed suspends 3 seconds when usage > 0.9, 1 second when
\* 0.7 < usage <= 0.9 and not at all otherwise; it suspends once, for that
\* long, and returns the seconds it waited
C13_WaitTiers ==
    [][call'.n # call.n /\ call'.op = "wait_if_needed"
       => LET u == call'.usage * 10
              m == max_requests
          IN  /\ u > 9 * m => call'.result = 3
              /\ 7 * m < u /\ u <= 9 * m => call'.result = 1
              /\ u <= 7 * m => call'.result = 0
              /\ clock' = clock + call'.result
              /\ call'.n = call.n + 1]_vars

\* a usage of exactly 0.9 waited one second
C13_AtBoundary ==
    /\ call.op = "wait_if_needed"
    /\ call.usage * 10 = 9 * max_requests
    /\ call.result = 1

\* the timestamps of a sequence that are inside the window that ends at now
InWindow(log, now) ==
    Cardinality({i \in DOMAIN log : log[i] >= now - window_seconds})

\* C14: after every sequence of record_requests calls and passage of time,
\* get_usage_ratio is the number of recorded timestamps still inside the
\* trailing window, over max_requests, and is not capped at 1
C14_UsageIsWindowCount ==
    [][call'.n # call.n
       => /\ call'.usage = InWindow(call'.log, clock)
          /\ call'.op = "get_usage_ratio" => call'.result = call'.usage]_vars

\* more requests than max_requests are in the window while earlier ones have
\* left it
C14_AboveOne ==
    /\ call.op = "get_usage_ratio"
    /\ call.result > max_requests
    /\ Len(call.log) > call.result

\* C15: the TTL written with the now-playing snapshot and with the rendered
\* widget is max(remaining_ms / 1000 + 30, 60) seconds, the division being
\* the integer one, with remaining_ms = duration_ms - progress_ms: at least
\* 60 for every snapshot, and 60 whenever remaining_ms is zero or negative
C15_TtlFloor ==
    redis.now_playing # Nothing
    => LET remaining_ms == Cached(redis).duration_ms
                           - Cached(redis).progress_ms
           ex == redis.now_playing[1].ex
       IN  /\ ex >= 60
           /\ remaining_ms <= 0 => ex = 60
           /\ ex >= (remaining_ms \div 1000) + 30
           /\ ex = 60 \/ ex = (remaining_ms \div 1000) + 30
           /\ redis.now_playing_svg # Nothing
           /\ redis.now_playing_svg[1].ex = ex

\* a snapshot 70 seconds past the track's duration is cached for 60 seconds
C15_PastTheEnd ==
    redis.now_playing =
        Some([data |-> NowPlaying("t1", 250000, 180000), ex |-> 60])

\* the backstop's insert of an event reports the event as new exactly when
\* it added a row for it
BackstopInsertReported ==
    bs.pc = "insert_play" /\ bs'.pc # "insert_play"
    => /\ bs'.pc = "upsert_track"
       /\ IF bs'.was_new
          THEN /\ BagCardinality(plays') = BagCardinality(plays) + 1
               /\ \E d \in BagToSet(plays') :
                    /\ ~BagIn(d, plays)
                    /\ d.track_id = bs'.play.track_id
                    /\ d.played_at = bs'.play.played_at
          ELSE plays' = plays

\* C16: for each event returned to the backstop, the event's track is
\* upserted; its listen_count is incremented by 1 if the insert of the play
\* log entry succeeded and is left unchanged if the insert was rejected as a
\* duplicate
C16_BackstopCountsNewPlays ==
    [][ShutdownStep \/
       /\ BackstopInsertReported
       /\ bs.pc = "upsert_track" /\ bs'.pc # "upsert_track"
          => /\ tracks'[bs.play.track_id].exists
             /\ tracks'[bs.play.track_id].listen_count =
                    tracks[bs.play.track_id].listen_count
                    + (IF bs.was_new THEN 1 ELSE 0)
             /\ \A t \in Tracks \ {bs.play.track_id} : tracks'[t] = tracks[t]
             /\ plays' = plays]_vars

\* the first of two events was a duplicate of the stored play of t1: t1 still
\* counts one listen for its one row
C16_DuplicateNotCounted ==
    /\ bs.pc = "insert_play" /\ bs.left = 1
    /\ bs.skipped = 1 /\ bs.inserted = 0
    /\ tracks["t1"].listen_count = 1
    /\ RowsOf(plays, "t1") = 1
    /\ ~tracks["t2"].exists

\* C17: poll_recently_played returns inserted and skipped counts whose sum
\* is the number of events fetched, at most 50; inserted counts the inserts
\* that added a row, skipped the duplicates, and a duplicate raises nothing
C17_CountsAddUp ==
    [][ShutdownStep \/
       /\ BackstopInsertReported
       /\ bs.pc = "fetch" /\ bs'.pc # "fetch"
          => /\ bs'.left = work' - work
             /\ bs'.left <= limit
             /\ bs'.inserted = 0 /\ bs'.skipped = 0
             /\ bs'.left = 0 <=> bs'.pc = "idle"
       /\ bs.pc = "upsert_track" /\ bs'.pc # "upsert_track"
          => /\ bs'.left = bs.left - 1
             /\ bs'.inserted = bs.inserted + (IF bs.was_new THEN 1 ELSE 0)
             /\ bs'.skipped = bs.skipped + (IF bs.was_new THEN 0 ELSE 1)
             /\ bs'.left = 0 <=> bs'.pc = "idle"
             /\ bs'.left > 0 <=> bs'.pc = "insert_play"]_vars

\* a run over two events ended with one inserted and one skipped
C17_OneOfEach ==
    /\ bs.pc = "idle" /\ bs.left = 0
    /\ bs.inserted = 1 /\ bs.skipped = 1

\* a run of sync_all_missing_metadata returns its counts in this step
SyncReturns == sy.pc # "idle" /\ sy'.pc = "idle" /\ sy'.last[1].status = "ok"

\* the run that ended before this one returned, and this run's aggregations
\* read no id that the earlier run's did not read
NoNewIdsSince(earlier, refs) ==
    earlier # Nothing /\ earlier[1].status = "ok" /\ refs \subseteq earlier[1].refs

\* the documents a run has counted so far, or counted when it ended
Counted(s) ==
    IF s.pc = "idle"
    THEN IF s.last = Nothing THEN 0
         ELSE s.last[1].artists_synced + s.last[1].albums_synced
    ELSE s.artists_synced + s.albums_synced

\* C18 as stated: when sync_all_missing_metadata has returned and is run
\* again, and the second run's aggregations read no artist or album id that
\* the first run's did not read, the second run reports artists_synced = 0
\* and albums_synced = 0 and has inserted no document
C18_SecondRunSyncsNothing ==
    [][SyncReturns /\ NoNewIdsSince(sy.last, sy'.last[1].refs)
       => sy'.last[1].artists_synced = 0 /\ sy'.last[1].albums_synced = 0]_vars

\* C18, amended: a run requests only ids that have no document, and its two
\* counts add up to the documents it inserts; so the second of two runs with
\* no new referenced id reports 0 and 0 and inserts nothing when the upstream
\* answered every id that the first run requested, and otherwise requests
\* the unanswered ids again
C18_SecondRunSyncsOnlyUnanswered ==
    [][/\ SyncReturns /\ NoNewIdsSince(sy.last, sy'.last[1].refs)
          /\ ~sy.last[1].unanswered
          => sy'.last[1].artists_synced = 0 /\ sy'.last[1].albums_synced = 0
       /\ sy'.pc = "fetch_artists"
          => \A a \in Range(sy'.missing) : ~BagIn(a, artists')
       /\ sy'.pc = "fetch_albums"
          => \A a \in Range(sy'.missing) : ~BagIn(a, albums')
       /\ sy.pc # "idle"
          => Counted(sy') - Counted(sy)
               = (BagCardinality(artists') + BagCardinality(albums'))
                 - (BagCardinality(artists) + BagCardinality(albums))]_vars

\* C18 witness: a first run synced the artist and the album, and a second
\* run with no new id has returned 0 and 0
C18_SecondRunClean ==
    /\ sy.pc = "idle"
    /\ sy.last # Nothing /\ sy.last[1].status = "ok"
    /\ NoNewIdsSince(sy.before, sy.last[1].refs)
    /\ ~sy.before[1].unanswered
    /\ sy.before[1].artists_synced = 1 /\ sy.before[1].albums_synced = 1
    /\ sy.last[1].artists_synced = 0 /\ sy.last[1].albums_synced = 0

\* C19: a fetch of a batch that fails does not end the run: the run goes on
\* to the remaining batches and returns its counts
C19_FetchFailureDoesNotAbort ==
    [][/\ sy.pc = "fetch_artists" => sy'.pc # "idle"
       /\ sy.pc # "idle" /\ sy'.pc = "idle" => sy'.last[1].status = "ok"]_vars

\* a poll cycle returns a dict (skipped or ok) in this step: every return of
\* poll_current_playback follows a call of _schedule_next_poll
PollReturns ==
    \/ /\ \E p \in Procs : proc[p].pc # "idle" /\ proc'[p].pc = "idle"
       /\ ret'.status \in {"ok", "skipped"}
    \/ /\ ~redis.token /\ proc' = proc /\ work' = work + 1
       /\ ret'.status = "skipped"

\* every job of js2 is in js1, with at least as many copies
SubStore(js2, js1) == \A j \in BagToSet(js2) : CopiesIn(j, js2) <= CopiesIn(j, js1)

C21_OnlyFetchPropagates ==
    [][\A p \in Procs :
         proc[p].pc \notin {"idle", "fetch"} /\ proc'[p].pc = "idle"
         /\ ~ShutdownStep
         => ret'.status = "ok"]_vars

\* the copies of a timestamp in a sequence
CopiesOf(t, q) == Cardinality({i \in DOMAIN q : q[i] = t})

\* C22: under every interleaving of the callers' record_requests and
\* get_requests_in_window calls, every timestamp appended that is still
\* inside the window is in the deque exactly as many times as it was
\* appended, no timestamp is in the deque more often than it was appended,
\* and the count a get_requests_in_window call is about to return is the
\* number of timestamps appended before it that are not older than its cutoff
C22_WindowSafeUnderConcurrency ==
    /\ \A t \in Range(rw.log) :
         /\ CopiesOf(t, requests) <= CopiesOf(t, rw.log)
         /\ t >= clock - window_seconds
            => CopiesOf(t, requests) = CopiesOf(t, rw.log)
    /\ \A c \in Callers :
         rw.th[c].pc = "unlock" /\ rw.th[c].op = "get_requests_in_window"
         => rw.th[c].result
              = Cardinality({i \in DOMAIN rw.log : rw.log[i] >= rw.th[c].cutoff})

\* C22 witness: a get_requests_in_window call that holds the lock is about
\* to return a count of at least one, while a second caller has called
\* record_requests and waits for the lock
C22_CallersContend ==
    \E c, d \in Callers :
      /\ c # d
      /\ rw.th[c].pc = "unlock" /\ rw.th[c].op = "get_requests_in_window"
      /\ rw.lock = c /\ rw.th[c].result >= 1
      /\ rw.th[d].pc = "lock" /\ rw.th[d].op = "record_requests"

\* C23: when two poll cycles overlap and both take the new-listen branch for
\* the same track, with start times within five seconds of each other, the
\* insert of the cycle that comes second adds no row: the log keeps the one
\* entry that the first cycle stored for the event
C23_OverlapKeepsOneEntry ==
    [][\A p, q \in Procs :
         /\ p # q
         /\ proc[p].pc = "insert_play" /\ proc'[p].pc # "insert_play"
         /\ proc[q].pc \notin {"idle", "fetch", "upsert_track", "insert_play"}
         /\ proc[q].play.track_id = proc[p].play.track_id
         /\ Abs(proc[q].play.played_at - proc[p].play.played_at) <= 5
         => plays' = plays]_vars

\* C24: at no time are two poll_current_playback cycles running at once
C24_NoConcurrentCycles ==
    \A p, q \in Procs : proc[p].pc # "idle" /\ proc[q].pc # "idle" => p = q

\* C25: while an external call of a poll cycle is in progress (the playback
\* request, the album-art download, the artist or the album request) the
\* scheduler's timers can fire: the hourly poll_recently_played trigger is
\* not held back
C25_TimersFireDuringExternalCalls ==
    /\ \E p \in Procs : proc[p].pc \in ExternalCallPcs
    /\ sched = "running" /\ bs.pc = "idle" /\ work < MaxWork
    => ENABLED backstop_timer

\* C26: after stop_scheduler the scheduler starts no new poll_current_playback
\* or poll_recently_played invocation, also when a cycle that was in flight
\* at shutdown finishes afterwards and registers a next invocation, and the
\* shutdown step itself interrupts no cycle that is in flight
C26_StopInterruptsNothing ==
    [][/\ sched = "shutdown"
          => /\ \A p \in Procs : proc[p].pc = "idle" => proc'[p].pc = "idle"
             /\ bs.pc = "idle" => bs'.pc = "idle"
       /\ ShutdownStep => proc' = proc /\ bs' = bs]_vars

\* C27: the interval chosen by _schedule_next_poll is monotonically
\* non-decreasing in requests_made: for all a <= b the interval of a is at
\* most the interval of b; 1 request gives the short interval, 2 or more
\* requests give the longer one
C27_IntervalMonotone ==
    call.op = "next_interval"
    => LET a == call.usage[1]
           b == call.usage[2]
       IN  /\ a <= b => call.result[1] <= call.result[2]
           /\ a = 1 => call.result[1] = 1
           /\ a >= 2 => call.result[1] = 2

\* a cycle with one request and a cycle with two: the short and the longer
\* interval
C27_ShortThenLonger ==
    /\ call.op = "next_interval"
    /\ call.usage = <<1, 2>>
    /\ call.result = <<1, 2>>

\* C28: for every value of requests_made, the interval that
\* _schedule_next_poll uses for the following cycle lies within
\* [min_interval, max_interval] of the rate limiter's configuration
C28_IntervalWithinLimiterBounds ==
    call.op = "next_interval"
    => \A i \in 1..2 : /\ min_interval <= call.result[i]
                       /\ call.result[i] <= max_interval

\* C29: every poll cycle that performs the external snapshot fetch records
\* exactly one request in the shared window of the rate limiter, after the
\* fetch and before the cache write: the step in which the fetch returns a
\* snapshot (or nothing playing) and the cache is written adds one timestamp
C29_SnapshotFetchRecorded ==
    [][\A p \in Procs :
         /\ proc[p].pc = "fetch" /\ proc'[p].pc # "fetch"
         /\ ~ShutdownStep
         /\ ~(proc'[p].pc = "idle" /\ ret'.error = "fetch")
         => Len(requests') = Len(requests) + 1]_vars

\* C30: when a new-listen cycle is interrupted after the track upsert and
\* before the play log insert, re-running the cycle is idempotent: once the
\* re-run of the same play has done its insert, the track's listen_count and
\* the play log equal what the uninterrupted cycle would have produced
C30_RerunIsIdempotent ==
    [][\A p \in Procs :
         /\ crash # Nothing
         /\ proc[p].pc = "insert_play" /\ proc'[p].pc # "insert_play"
         /\ ~ShutdownStep
         /\ proc[p].play = crash[1].play
         /\ plays = crash[1].before
         => /\ plays' = crash[1].plays
            /\ tracks'[proc[p].play.track_id] =
                   crash[1].tracks[proc[p].play.track_id]]_vars

\* C31: each artist and each album document is written at most once per
\* external id and stays once written, also when two metadata syncs find the
\* same id missing at the same time, and such a race makes neither sync fail:
\* no cycle ends with an error in its insert of artist or album documents
C31_WrittenOnceAndRaceHarmless ==
    [][/\ \A d \in BagToSet(artists') : CopiesIn(d, artists') = 1
       /\ \A d \in BagToSet(albums') : CopiesIn(d, albums') = 1
       /\ artists \sqsubseteq artists' /\ albums \sqsubseteq albums'
       /\ \A p \in Procs :
            /\ proc[p].pc \in {"insert_artists", "insert_album"}
            /\ proc'[p].pc = "idle"
            /\ ~ShutdownStep
            => ret'.status # "raised"]_vars

\* C32: within one poll cycle the next invocation is registered only after
\* every other effect of the cycle has finished: the step that registers it
\* is the step in which the cycle returns, the cache, the track, the play
\* log, the metadata and the marker are written in earlier steps or in that
\* one. When only the timer chain triggers polls, no invocation is pending
\* while a cycle runs, so no cycle starts, and no trigger is skipped, while
\* the previous one is still running
C32_RegisteredLast ==
    /\ [](/\ proc["job"].pc # "idle" => ~PollJobPending
          /\ proc["manual"].pc = "idle"
          /\ ~ENABLED job_poll_skipped)
    /\ [][sched' = sched /\ PendingCount(jobs', POLL_ID) > PendingCount(jobs, POLL_ID)
          => /\ proc["job"].pc # "idle"
             /\ proc'["job"].pc = "idle"
             /\ ret'.status = "ok"]_vars

\* a new-listen cycle that wrote the track, the play, the metadata and the
\* marker has returned and its next invocation is pending
C32_FullCycleThenPending ==
    /\ sched = "running"
    /\ \A p \in Procs : proc[p].pc = "idle"
    /\ ret.status = "ok" /\ ret.new_listen /\ ret.requests_made >= 2
    /\ redis.last_track_id = ret.obs
    /\ PollJobPending

\* sync_missing_artists of cycle p has called sp.artists in this step
ArtistsFetched(p) ==
    /\ proc[p].pc = "sync_artists" /\ proc'[p].pc # "sync_artists"
    /\ ~ShutdownStep
    /\ missing_ids(artists, artist_ids(proc[p].play.track_id)) # <<>>

\* sync_missing_album of cycle p has called sp.album in this step
AlbumFetched(p) ==
    /\ proc[p].pc = "sync_album" /\ proc'[p].pc # "sync_album"
    /\ ~ShutdownStep
    /\ ~BagIn(album_id(proc[p].play.track_id), albums)

\* C33: in a new-listen cycle the metadata sync is invoked only when the
\* track upsert reported first-ever creation, and requests_made at the end
\* of the cycle is 1 plus the number of metadata batches fetched upstream in
\* the cycle: a cycle that leaves sync_missing_artists or sync_missing_album
\* after its upstream call has counted that call
C33_RequestsMadeCountsFetches ==
    [][\A p \in Procs :
         /\ proc[p].pc # "sync_artists" /\ proc'[p].pc = "sync_artists"
            => proc[p].pc = "insert_play" /\ proc[p].is_new_track
         /\ ArtistsFetched(p) /\ proc'[p].pc = "sync_album"
            => proc'[p].requests_made = proc[p].requests_made + 1
         /\ AlbumFetched(p) /\ proc'[p].pc = "idle"
            => ret'.requests_made = proc[p].requests_made + 1]_vars

\* C34: sync_all_missing_metadata fetches exactly the referenced ids that
\* are absent from the store, each in exactly one upstream batch of at most
\* 50 artist ids or 20 album ids: a batch takes ids off the head of the
\* missing list, none of them stored, and a run ends only when the artist ids
\* and the album ids have been examined and no missing id is left to fetch
C34_EveryMissingIdFetchedOnce ==
    [][/\ sy.pc = "fetch_artists" /\ sy' # sy /\ sy'.pc # "idle"
          => /\ Len(sy.missing) - Len(sy'.missing) \in 1..artist_batch
             /\ \A a \in Range(sy.missing) : ~BagIn(a, artists)
       /\ sy.pc = "fetch_albums" /\ sy'.missing # sy.missing
          => /\ Len(sy.missing) - Len(sy'.missing) \in 1..album_batch
             /\ \A a \in Range(sy.missing) : ~BagIn(a, albums)
       /\ sy.pc # "idle" /\ sy'.pc = "idle"
          => /\ sy.pc \in {"find_albums", "fetch_albums", "insert_albums"}
             /\ Len(sy.missing) <= (IF sy.pc = "fetch_albums" THEN album_batch ELSE 0)
             /\ sy'.last[1].status = "ok"]_vars

\* the timestamps of a sequence that are strictly newer than now minus the
\* window
NewerThanCutoff(log, now) ==
    Cardinality({i \in DOMAIN log : log[i] > now - window_seconds})

\* the deque after a call made at `now`: in non-decreasing time order, with
\* no timestamp older than the cutoff
OrderedAndPurged(q, now) ==
    /\ \A i \in 1..(Len(q) - 1) : q[i] <= q[i + 1]
    /\ \A i \in DOMAIN q : q[i] >= now - window_seconds

\* C35 as stated: the count is the number of recorded timestamps strictly
\* newer than now - window_seconds, a timestamp exactly window_seconds old
\* not being counted; after each count or record the deque is ordered and
\* holds no timestamp older than the cutoff
C35_CountsStrictlyNewer ==
    [][call'.n # call.n
       => /\ call'.usage = NewerThanCutoff(call'.log, clock)
          /\ Len(requests') = call'.usage
          /\ OrderedAndPurged(requests', clock)]_vars

\* C35: the count is the number of recorded timestamps not older than
\* now - window_seconds, a timestamp exactly window_seconds old being still
\* counted; after each count or record the deque is in non-decreasing time
\* order and holds no timestamp older than the cutoff
C35_CountsNotOlder ==
    [][call'.n # call.n
       => /\ call'.usage = InWindow(call'.log, clock)
          /\ Len(requests') = call'.usage
          /\ OrderedAndPurged(requests', clock)]_vars

\* a count taken when the oldest timestamp is exactly window_seconds old
\* includes it, while an earlier timestamp has been purged or none was older
C35_CountAtCutoff ==
    /\ call.op = "get_usage_ratio"
    /\ requests # <<>>
    /\ requests[1] = clock - window_seconds
    /\ call.usage = Len(requests)
    /\ call.usage > NewerThanCutoff(call.log, clock)

\* C36: after a cycle with no snapshot has cleared the last-seen marker, the
\* next cycle that observes a snapshot is treated as a new listen, also when
\* its track is the one observed before the gap: it takes the new-listen
\* branch, its track upsert increments listen_count, and it attempts the
\* insert of the play log entry
C36_NewListenAfterGap ==
    [][\A p \in Procs :
         ret.obs = "nothing" /\ Alone(p) /\ ~ShutdownStep
         => /\ GetsSnapshot(p)
               => /\ redis.last_track_id = None
                  /\ proc'[p].pc = "upsert_track"
                  /\ proc'[p].play.track_id = Cached(redis').track_id
            /\ proc[p].pc = "upsert_track" /\ proc'[p].pc # "upsert_track"
               => /\ proc'[p].pc = "insert_play"
                  /\ tracks'[proc[p].play.track_id].listen_count =
                         tracks[proc[p].play.track_id].listen_count + 1
            /\ proc[p].pc = "insert_play" /\ proc'[p].pc # "insert_play"
               => plays' = insert_play(plays, proc[p].play, "live")]_vars

\* t1 was the last track seen, a cycle found nothing playing, and the cycle
\* after it observed t1 again: it was a new listen, counted a second time
C36_SameTrackAfterGap ==
    /\ ret.status = "ok" /\ ret.new_listen
    /\ ret.prev = "nothing" /\ ret.obs = SeenBefore.track_id
    /\ tracks[SeenBefore.track_id].listen_count = 2
    /\ redis.last_track_id = SeenBefore.track_id

\* C37 as stated: with the scheduler reference set, every poll cycle that
\* returns leaves a poll_current_playback invocation pending, so a chain that
\* had stopped is restored
C37_EveryReturnRestoresChain ==
    [][PollReturns /\ scheduler_set /\ sched' = sched => PollJobPending']_vars

\* C37, amended: with the scheduler reference set, every poll cycle that
\* returns and whose own add_job does not raise leaves a poll invocation
\* pending, whether or not one was pending before; while the scheduler runs
\* a pending invocation can fire, so the chain is restored
C37_ReturnWithWorkingStoreRestoresChain ==
    /\ [][PollReturns /\ scheduler_set /\ store_ok /\ sched' = sched
          => PollJobPending']_vars
    /\ [](/\ sched = "running" /\ PollJobPending
          /\ proc["job"].pc = "idle" /\ work < MaxWork
          => ENABLED (job_poll_fetch \/ job_poll_unauthenticated))

\* the chain has stopped (the scheduled cycle raised and nothing is pending)
\* and a manual poll has got its snapshot request under way; its return is
\* the next step of that coroutine
C37_ManualPollOnStoppedChain ==
    /\ sched = "running" /\ store_ok
    /\ ~PollJobPending
    /\ ret.status = "raised"
    /\ proc["job"].pc = "idle"
    /\ proc["manual"].pc = "fetch"
    /\ ENABLED poll_nothing_playing("manual")

\* the tracks of the page that sync_favorites fetches next
NextPage == get_saved_tracks_page(fav.library, FavPage, fav.offset).tracks

\* C38: sync_favorites goes on to the next page as long as the current page
\* holds at least one track that is not in the favorites collection yet and
\* pages remain, it stops at a page of known tracks only, and it ends after
\* at most one page more than the library holds
C38_ContinuesWhileAnyNew ==
    [][fav.pc = "page" /\ fav' # fav
       => /\ fav'.pages_fetched <= Len(fav.library) \div FavPage + 1
          /\ (\E i \in DOMAIN NextPage : NextPage[i] \notin fav.favorites)
             /\ fav.offset + FavPage < Len(fav.library)
             => fav'.pc = "page"
          /\ NextPage # <<>>
             /\ (\A i \in DOMAIN NextPage : NextPage[i] \in fav.favorites)
             => fav'.pc = "idle"]_vars

\* the documents of the collection the migration started on that collide with
\* d: same track_id and same minute
CollidingBefore(d) ==
    {e \in mig.before :
        /\ e.track_id = d.track_id
        /\ dateTrunc(e.listened_at) = dateTrunc(d.listened_at)}

\* C39: when migration 003 has run, no two plays share (track_id, minute),
\* each group of colliding plays is survived by its earliest play, and every
\* listened_at left is a whole minute
C39_MigrationDeduplicates ==
    mig.pc = "done"
    => /\ \A d, e \in BagToSet(plays) :
            /\ d.track_id = e.track_id
            /\ dateTrunc(d.listened_at) = dateTrunc(e.listened_at)
            => d.id = e.id
       /\ \A b \in mig.before :
            \E d \in BagToSet(plays) :
                /\ d.id \in {e.id : e \in CollidingBefore(b)}
                /\ \A e \in CollidingBefore(b) :
                     \E o \in CollidingBefore(b) :
                         o.id = d.id /\ o.listened_at <= e.listened_at
       /\ \A d \in BagToSet(plays) :
            /\ CopiesIn(d, plays) = 1
            /\ d.listened_at % 60 = 0

====
